---- MODULE Spec2Model ----
(***************************************************************************)
(* spat: a Redis-like key/value store kept in PostgreSQL shared memory.    *)
(*                                                                         *)
(* The model follows spat.c.  A SpatDB is one dshash table of SpatDBEntry  *)
(* records keyed by a dss (a NUL terminated string in the DSA).  Every SQL *)
(* command attaches, does one operation on the table and detaches.         *)
(*                                                                         *)
(* Spec      one session: each command runs from attach to detach as one   *)
(*           step.                                                         *)
(* SpecSadd  several backends run SADD on one key, interleaved at their   *)
(*           uses of g_dsa and g_htab and at the partition lock.           *)
(* SpecDb    one session that switches between named databases.            *)
(* SpecAttach  backends interleaved at spat_attach_shmem/spat_detach_shmem.*)
(* SpecOom   one session whose allocations can fail in a handler.          *)
(* SpecConc  backends run del, sismember, sadd and sp_db_nitems beside one *)
(*           another, interleaved at their lock calls.                     *)
(***************************************************************************)
EXTENDS Integers, Sequences, FiniteSets, TLC

(* ------------------------------ bounds -------------------------------- *)

\* longest text value given to SPSET
MaxLen == 1
\* number of list_element cells the DSA can hold
MaxCells == 3
\* backends running SADD concurrently in SpecSadd
NProcs == 2
\* commands that write to the table in one run of Spec
MaxWrites == 3

(* ------------------------------ inputs -------------------------------- *)

\* the bytes of a value: NUL and one other
Alphabet == {0, 1}

RECURSIVE StrUpTo(_)
StrUpTo(n) ==
    IF n = 0 THEN {<<>>}
    ELSE LET shorter == StrUpTo(n - 1)
         IN  shorter \cup {Append(s, b) : s \in {t \in shorter : Len(t) = n - 1}, b \in Alphabet}

\* text payloads of SPSET
Values == StrUpTo(MaxLen)
\* text keys
Keys == {<<1>>, <<2>>}
\* set members, list elements, hash fields and hash values
Members == {<<1>>, <<2>>}
Fields == {<<1>>, <<2>>}

(* ------------------------------ varlena ------------------------------- *)

\* A text datum: one header element holding the total size, then the payload.
MkText(payload) == <<Len(payload) + 1>> \o payload
VARSIZE_ANY(txt) == Head(txt)
VARSIZE_ANY_EXHDR(txt) == Head(txt) - 1
VARDATA_ANY(txt) == SubSeq(txt, 2, Head(txt))
\* memcpy(dest, src, n): the first n bytes of src
MemCpy(src, n) == SubSeq(src, 1, n)
\* text_to_cstring: the payload of a text datum
text_to_cstring(txt) == SubSeq(txt, 2, VARSIZE_ANY(txt))

(* -------------------------------- dss --------------------------------- *)

\* dss_new: len = payload length + 1, the payload copied and NUL terminated
dss_new(txt) ==
    [str |-> Append(MemCpy(VARDATA_ANY(txt), VARSIZE_ANY_EXHDR(txt)), 0),
     len |-> VARSIZE_ANY_EXHDR(txt) + 1]

\* dss_to_text: a text datum of the len - 1 payload bytes
dss_to_text(d) == <<(d.len - 1) + 1>> \o MemCpy(d.str, d.len - 1)

\* memcmp over the first n bytes: the sign of the first difference
RECURSIVE MemCmp(_, _, _)
MemCmp(a, b, n) ==
    IF n = 0 THEN 0
    ELSE IF Head(a) < Head(b) THEN -1
    ELSE IF Head(a) > Head(b) THEN 1
    ELSE MemCmp(Tail(a), Tail(b), n - 1)

dss_cmp_arg(a, b) ==
    IF a.len # b.len
    THEN (IF a.len < b.len THEN -1 ELSE 1)
    ELSE MemCmp(a.str, b.str, a.len - 1)

\* dss_cpy_arg: the key copy stored in a new table item
dss_cpy_arg(src) == [str |-> MemCpy(src.str, src.len), len |-> src.len]

\* PG_GETARG_DSS(n)
ArgDss(payload) == dss_new(MkText(payload))

(* ------------------------------- types -------------------------------- *)

ValTypes == {"SPVAL_INVALID", "SPVAL_NULL", "SPVAL_STRING",
             "SPVAL_SET", "SPVAL_LIST", "SPVAL_HASH"}

spTypeName(t) ==
    CASE t = "SPVAL_STRING" -> "string"
      [] t = "SPVAL_SET"    -> "set"
      [] t = "SPVAL_LIST"   -> "list"
      [] t = "SPVAL_NULL"   -> "null"
      [] OTHER              -> "invalid"

InvalidDsaPointer == 0
CellPtrs == 1 .. MaxCells

(* ------------------------------ entries ------------------------------- *)

\* The union arms of SpatDBEntry.value.  `arm` names the arm whose bytes were
\* written last; "uninit" is an item of dshash_find_or_insert whose value was
\* never written (dsa_allocate does not clear memory).
NoDss == [str |-> <<>>, len |-> 0]
NoString == [str |-> <<>>, len |-> 0]
NoTable == [tab |-> {}, size |-> 0]
NoList == [size |-> 0, head |-> InvalidDsaPointer, tail |-> InvalidDsaPointer]
NoJunk == [zero |-> FALSE, size0 |-> FALSE]

\* What a fresh item can hold: all-zero bytes of a never used page, or the
\* stale bytes of a block freed earlier (any tag; list.size zero or not).
Junk ==
    {[valtyp |-> "SPVAL_INVALID", zero |-> TRUE, size0 |-> TRUE]}
    \cup [valtyp : ValTypes, zero : {FALSE}, size0 : BOOLEAN]

\* struct SpatDBEntry, as dshash_find_or_insert leaves a new item: the key
\* copied in, nothing else written.
NewEntry(key, j) ==
    [key      |-> key,
     expireat |-> "uninit",
     valtyp   |-> j.valtyp,
     arm      |-> "uninit",
     string   |-> NoString,
     set      |-> NoTable,
     list     |-> NoList,
     hash     |-> NoTable,
     junk     |-> [zero |-> j.zero, size0 |-> j.size0]]

\* Writing one arm of the union overwrites the bytes of the others.
WithString(e, s) ==
    [e EXCEPT !.arm = "string", !.string = s, !.set = NoTable, !.list = NoList,
              !.hash = NoTable, !.junk = NoJunk]
WithSet(e, s) ==
    [e EXCEPT !.arm = "set", !.string = NoString, !.set = s, !.list = NoList,
              !.hash = NoTable, !.junk = NoJunk]
WithList(e, l) ==
    [e EXCEPT !.arm = "list", !.string = NoString, !.set = NoTable, !.list = l,
              !.hash = NoTable, !.junk = NoJunk]
WithHash(e, h) ==
    [e EXCEPT !.arm = "hash", !.string = NoString, !.set = NoTable, !.list = NoList,
              !.hash = h, !.junk = NoJunk]

(* ------------------------------- dshash ------------------------------- *)

\* The items of a table whose key compares equal.  The bucket is chosen by
\* dss_hash over the same bytes dss_cmp compares, so equal keys share it.
dshash_find(tab, key) == {e \in tab : dss_cmp_arg(e.key, key) = 0}

spdb_find(tab, key) ==
    IF dshash_find(tab, key) = {} THEN [found |-> FALSE, e |-> NewEntry(NoDss, CHOOSE j \in Junk : j.zero)]
    ELSE [found |-> TRUE, e |-> CHOOSE e \in dshash_find(tab, key) : TRUE]

spdb_find_or_insert(tab, key, j) ==
    IF dshash_find(tab, key) # {}
    THEN [tab |-> tab, found |-> TRUE, e |-> CHOOSE e \in dshash_find(tab, key) : TRUE]
    ELSE [tab |-> tab \cup {NewEntry(dss_cpy_arg(key), j)}, found |-> FALSE,
          e |-> NewEntry(dss_cpy_arg(key), j)]

\* the entry pointer is written through while the partition lock is held
Store(tab, old, new) == (tab \ {old}) \cup {new}

dshash_delete_key(tab, key) == tab \ dshash_find(tab, key)

\* nested tables (sets of dss; hashes of field/value pairs)
set_find(tab, elem) == {x \in tab : dss_cmp_arg(x, elem) = 0}
hash_find(tab, field) == {x \in tab : dss_cmp_arg(x.field, field) = 0}

(* ----------------------------- list cells ----------------------------- *)

FreeCell == [used |-> FALSE, data |-> NoDss, prev |-> InvalidDsaPointer, next |-> InvalidDsaPointer]

HasFree(cells) == \E p \in CellPtrs : ~cells[p].used
\* dsa_allocate(sizeof(list_element)): the lowest free cell
dsa_allocate(cells) == CHOOSE p \in CellPtrs : ~cells[p].used /\ \A q \in CellPtrs : q < p => cells[q].used
dsa_free(cells, p) == [cells EXCEPT ![p] = FreeCell]

(* ------------------------------ results ------------------------------- *)

Res(kind, t, s, n) == [kind |-> kind, t |-> t, s |-> s, n |-> n]
RVoid == Res("void", "", <<>>, 0)
RNull == Res("null", "", <<>>, 0)
RBool(b) == Res("bool", "", <<>>, IF b THEN 1 ELSE 0)
RInt(n) == Res("int", "", <<>>, n)
RText(txt) == Res("text", "", txt, 0)
RName(t) == Res("name", t, <<>>, 0)
\* an int read from bytes that were never written as that field
RGarbageInt == Res("int", "garbage", <<>>, 0)

Out(tab, cells, res, fault) == [tab |-> tab, cells |-> cells, res |-> res, fault |-> fault]

(* ------------------------- strings and generic ------------------------- *)

\* makeSpvalFromEntry: the SPValue echoed by SPSET and returned by SPGET.
\* SPVAL_HASH has no case: result->typ stays unwritten, as for INVALID/NULL.
makeSpvalFromEntry(e) ==
    CASE e.valtyp = "SPVAL_STRING" ->
            Res("spval", "SPVAL_STRING", MemCpy(e.string.str, e.string.len), 0)
      [] e.valtyp = "SPVAL_SET" ->
            IF e.arm = "set" THEN Res("spval", "SPVAL_SET", <<>>, e.set.size)
            ELSE Res("spval", "SPVAL_SET", <<>>, -1)
      [] e.valtyp = "SPVAL_LIST" ->
            IF e.arm = "list" THEN Res("spval", "SPVAL_LIST", <<>>, e.list.size)
            ELSE Res("spval", "SPVAL_LIST", <<>>, -1)
      [] OTHER -> Res("spval", "garbage", <<>>, 0)

\* the bytes of a C string up to its first NUL
RECURSIVE StrChars(_)
StrChars(s) == IF s = <<>> \/ Head(s) = 0 THEN <<>> ELSE <<Head(s)>> \o StrChars(Tail(s))

\* spvalue_out of a string SPValue: appendStringInfoString of text_to_cstring
spvalue_out(v) == StrChars(text_to_cstring(v.s))

\* SPSET that leaves the tag of an entry that exists
spset_notag(tab, cells, key, value, ex, j) ==
    LET r == spdb_find_or_insert(tab, ArgDss(key), j)
        e == IF r.found THEN r.e ELSE [r.e EXCEPT !.valtyp = "SPVAL_STRING"]
    IN  Out(Store(r.tab, r.e,
                  WithString(e, [str |-> MemCpy(value, VARSIZE_ANY(value)),
                                 len |-> VARSIZE_ANY(value)])),
            cells, RVoid, "none")

\* SPSET that keeps the value of an entry that exists
spset_keep(tab, cells, key, value, ex, j) ==
    LET r == spdb_find_or_insert(tab, ArgDss(key), j)
    IN  IF r.found /\ r.e.arm = "string"
        THEN Out(tab, cells, makeSpvalFromEntry(r.e), "none")
        ELSE Out(Store(r.tab, r.e,
                       WithString([r.e EXCEPT !.valtyp = "SPVAL_STRING"],
                                  [str |-> MemCpy(value, VARSIZE_ANY(value)),
                                   len |-> VARSIZE_ANY(value)])),
                 cells, RVoid, "none")

\* spset_generic(key, value, ex): value is a text datum, ex = 0 is a NULL ttl
spset_generic(tab, cells, key, value, ex, j) ==
    LET r  == spdb_find_or_insert(tab, ArgDss(key), j)
        e1 == IF ex # 0 THEN [r.e EXCEPT !.expireat = "ttl"] ELSE r.e
        e2 == WithString([e1 EXCEPT !.valtyp = "SPVAL_STRING"],
                         [str |-> MemCpy(value, VARSIZE_ANY(value)),
                          len |-> VARSIZE_ANY(value)])
    IN  Out(Store(r.tab, r.e, e2), cells, makeSpvalFromEntry(e2), "none")

spget(tab, cells, key) ==
    LET r == spdb_find(tab, ArgDss(key))
    IN  IF ~r.found THEN Out(tab, cells, RNull, "none")
        ELSE IF r.e.valtyp = "SPVAL_STRING" /\ r.e.arm # "string"
        THEN Out(tab, cells, RNull, "spget: string arm read from an entry that holds none")
        ELSE Out(tab, cells, makeSpvalFromEntry(r.e), "none")

sptype(tab, cells, key) ==
    LET r == spdb_find(tab, ArgDss(key))
    IN  Out(tab, cells, RName(spTypeName(IF r.found THEN r.e.valtyp ELSE "SPVAL_NULL")), "none")

\* What the bytes of an expireat that was never written spell: DT_NOEND, or
\* another timestamp (2000-01-01 for the zero bytes of a fresh page).
ExpireJunk == {"SpMaxTTL", "other"}

\* getexpireat(key): NULL for no entry and for expireat = SpMaxTTL
getexpireat(tab, cells, key, g) ==
    LET r == spdb_find(tab, ArgDss(key))
    IN  IF ~r.found THEN Out(tab, cells, RNull, "none")
        ELSE IF r.e.expireat = "uninit"
        THEN Out(tab, cells, IF g = "SpMaxTTL" THEN RNull ELSE Res("timestamp", "garbage", <<>>, 0),
                 "none")
        ELSE Out(tab, cells, Res("timestamp", r.e.expireat, <<>>, 0), "none")

\* sp_db_nitems: the sequential scan counts every item of the table
sp_db_nitems(tab, cells) == Out(tab, cells, RInt(Cardinality(tab)), "none")

(* -------------------------------- sets -------------------------------- *)

\* SADD that counts a member it found
sadd_insert_count(set, elem) ==
    [tab |-> set.tab \cup {dss_cpy_arg(elem)}, size |-> set.size + 1]

\* The nested dshash_find_or_insert of SADD and the size++ that follows it.
sadd_insert(set, elem) ==
    IF set_find(set.tab, elem) # {} THEN set
    ELSE [tab |-> set.tab \cup {dss_cpy_arg(elem)}, size |-> set.size + 1]

\* sadd(key, member).  An entry that exists is taken to be a set: the Assert
\* is compiled out of a production build and aborts the backend otherwise.
sadd(tab, cells, key, member, j) ==
    LET r == spdb_find_or_insert(tab, ArgDss(key), j)
        e == IF ~r.found THEN WithSet([r.e EXCEPT !.valtyp = "SPVAL_SET"], NoTable) ELSE r.e
    IN  IF r.found /\ (r.e.arm # "set" \/ r.e.valtyp # "SPVAL_SET")
        THEN Out(tab, cells, RVoid, "sadd: the entry holds no set")
        ELSE Out(Store(r.tab, r.e, WithSet(e, sadd_insert(e.set, ArgDss(member)))),
                 cells, RVoid, "none")

sismember(tab, cells, key, member) ==
    LET r == spdb_find(tab, ArgDss(key))
    IN  IF ~r.found THEN Out(tab, cells, RBool(FALSE), "none")
        ELSE IF r.e.arm # "set" \/ r.e.valtyp # "SPVAL_SET"
        THEN Out(tab, cells, RBool(FALSE), "sismember: the entry holds no set")
        ELSE Out(tab, cells, RBool(set_find(r.e.set.tab, ArgDss(member)) # {}), "none")

\* SREM that counts down for a member it did not find
srem_delete_count(set, elem) ==
    [tab |-> set.tab \ set_find(set.tab, elem), size |-> set.size - 1]

\* the nested dshash_delete_key of SREM and the size-- that follows it
srem_delete(set, elem) ==
    IF set_find(set.tab, elem) = {} THEN set
    ELSE [tab |-> set.tab \ set_find(set.tab, elem), size |-> set.size - 1]

srem(tab, cells, key, member) ==
    LET r == spdb_find(tab, ArgDss(key))
    IN  IF ~r.found THEN Out(tab, cells, RBool(FALSE), "none")
        ELSE IF r.e.arm # "set" \/ r.e.valtyp # "SPVAL_SET"
        THEN Out(tab, cells, RBool(FALSE), "srem: the entry holds no set")
        ELSE Out(Store(tab, r.e, WithSet(r.e, srem_delete(r.e.set, ArgDss(member)))), cells,
                 RBool(set_find(r.e.set.tab, ArgDss(member)) # {}), "none")

scard(tab, cells, key) ==
    LET r == spdb_find(tab, ArgDss(key))
    IN  IF r.found /\ r.e.valtyp = "SPVAL_SET"
        THEN Out(tab, cells, IF r.e.arm = "set" THEN RInt(r.e.set.size) ELSE RGarbageInt, "none")
        ELSE Out(tab, cells, RNull, "none")

(* -------------------------------- lists ------------------------------- *)

\* value.list.size as the bytes of the entry read: the list arm when it was
\* written, zero or not for a fresh item, and the low half of a pointer or a
\* handle (never zero) under a string, a set or a hash.
ListSizeIsZero(e) ==
    CASE e.arm = "list"   -> e.list.size = 0
      [] e.arm = "uninit" -> e.junk.size0
      [] OTHER            -> FALSE

\* a new list_element holding elem, alone in its list
FirstCell(cells, elem) ==
    [cells EXCEPT ![dsa_allocate(cells)] =
        [used |-> TRUE, data |-> elem, prev |-> InvalidDsaPointer, next |-> InvalidDsaPointer]]

OneElemList(cells) == [size |-> 1, head |-> dsa_allocate(cells), tail |-> dsa_allocate(cells)]

\* lpush(key, elem); needs a free cell: dsa_allocate raises otherwise
lpush(tab, cells, key, elem, j) ==
    LET r == spdb_find_or_insert(tab, ArgDss(key), j)
        p == dsa_allocate(cells)
    IN  IF ~r.found
        THEN Out(Store(r.tab, r.e, WithList([r.e EXCEPT !.valtyp = "SPVAL_LIST"], OneElemList(cells))),
                 FirstCell(cells, ArgDss(elem)), RVoid, "none")
        ELSE IF ListSizeIsZero(r.e)
        THEN \* "reinitializing an emptied list": valtyp is left as it is
             Out(Store(r.tab, r.e, WithList(r.e, OneElemList(cells))),
                 FirstCell(cells, ArgDss(elem)), RVoid, "none")
        ELSE IF r.e.arm # "list"
        THEN Out(tab, cells, RVoid, "lpush: list.head read from an entry that holds no list")
        ELSE Out(Store(r.tab, r.e,
                       WithList(r.e, [r.e.list EXCEPT !.head = p, !.size = r.e.list.size + 1])),
                 [cells EXCEPT ![p] = [used |-> TRUE, data |-> ArgDss(elem),
                                       prev |-> InvalidDsaPointer, next |-> r.e.list.head],
                               ![r.e.list.head].prev = p],
                 RVoid, "none")

\* rpush(key, elem)
rpush(tab, cells, key, elem, j) ==
    LET r == spdb_find_or_insert(tab, ArgDss(key), j)
        p == dsa_allocate(cells)
    IN  IF ~r.found \/ ListSizeIsZero(r.e)
        THEN Out(Store(r.tab, r.e, WithList([r.e EXCEPT !.valtyp = "SPVAL_LIST"], OneElemList(cells))),
                 FirstCell(cells, ArgDss(elem)), RVoid, "none")
        ELSE IF r.e.arm # "list"
        THEN Out(tab, cells, RVoid, "rpush: list.tail read from an entry that holds no list")
        ELSE Out(Store(r.tab, r.e,
                       WithList(r.e, [r.e.list EXCEPT !.tail = p, !.size = r.e.list.size + 1])),
                 [cells EXCEPT ![p] = [used |-> TRUE, data |-> ArgDss(elem),
                                       prev |-> r.e.list.tail, next |-> InvalidDsaPointer],
                               ![r.e.list.tail].next = p],
                 RVoid, "none")

\* llen(key): dshash_find_or_insert, so an absent key gets an item
llen(tab, cells, key, j) ==
    LET r == spdb_find_or_insert(tab, ArgDss(key), j)
    IN  IF ~r.found THEN Out(r.tab, cells, RNull, "none")
        ELSE Out(r.tab, cells,
                 CASE r.e.arm = "list" -> RInt(r.e.list.size)
                   [] r.e.arm = "uninit" /\ r.e.junk.size0 -> RInt(0)
                   [] OTHER -> RGarbageInt,
                 "none")

\* lpop(key): dshash_find_or_insert again
lpop(tab, cells, key, j) ==
    LET r == spdb_find_or_insert(tab, ArgDss(key), j)
        h == r.e.list.head
        n == cells[h].next
    IN  IF ~r.found \/ r.e.valtyp # "SPVAL_LIST" \/ ListSizeIsZero(r.e)
        THEN Out(r.tab, cells, RNull, "none")
        ELSE IF r.e.arm # "list"
        THEN Out(tab, cells, RNull, "lpop: list.head read from an entry that holds no list")
        ELSE Out(Store(r.tab, r.e,
                       WithList(r.e, [size |-> r.e.list.size - 1,
                                      head |-> n,
                                      tail |-> IF n # InvalidDsaPointer THEN r.e.list.tail
                                               ELSE InvalidDsaPointer])),
                 dsa_free(IF n # InvalidDsaPointer
                          THEN [cells EXCEPT ![n].prev = InvalidDsaPointer] ELSE cells, h),
                 RText(dss_to_text(cells[h].data)), "none")

(* ------------------------------- hashes ------------------------------- *)

\* HSET that stores a field it found a second time
hset_insert_dup(hash, field, value) ==
    [tab |-> hash.tab \cup {[field |-> field, value |-> value]}, size |-> hash.size + 1]

\* The nested dshash_find_or_insert of HSET and what follows it: a new field
\* is stored with its value and counted, the value of an existing one replaced.
hset_insert(hash, field, value) ==
    IF hash_find(hash.tab, field) = {}
    THEN [tab |-> hash.tab \cup {[field |-> field, value |-> value]}, size |-> hash.size + 1]
    ELSE [tab |-> (hash.tab \ hash_find(hash.tab, field))
                    \cup {[x EXCEPT !.value = value] : x \in hash_find(hash.tab, field)},
          size |-> hash.size]

hset(tab, cells, key, field, value, j) ==
    LET r == spdb_find_or_insert(tab, ArgDss(key), j)
        e == IF ~r.found THEN WithHash([r.e EXCEPT !.valtyp = "SPVAL_HASH"], NoTable) ELSE r.e
    IN  IF r.found /\ (r.e.arm # "hash" \/ r.e.valtyp # "SPVAL_HASH")
        THEN Out(tab, cells, RVoid, "hset: the entry holds no hash")
        ELSE Out(Store(r.tab, r.e, WithHash(e, hset_insert(e.hash, ArgDss(field), ArgDss(value)))),
                 cells, RVoid, "none")

hget(tab, cells, key, field) ==
    LET r == spdb_find(tab, ArgDss(key))
        f == hash_find(r.e.hash.tab, ArgDss(field))
    IN  IF ~r.found \/ r.e.valtyp # "SPVAL_HASH" THEN Out(tab, cells, RNull, "none")
        ELSE IF r.e.arm # "hash"
        THEN Out(tab, cells, RNull, "hget: hash.hndl read from an entry that holds no hash")
        ELSE IF f = {} THEN Out(tab, cells, RNull, "none")
        ELSE Out(tab, cells, RText(dss_to_text((CHOOSE x \in f : TRUE).value)), "none")

(* ------------------------------- delete ------------------------------- *)

\* the SPVAL_LIST arm of del: dsa_free of every element from head along next
RECURSIVE FreeChain(_, _)
FreeChain(cells, p) ==
    IF p = InvalidDsaPointer THEN cells
    ELSE FreeChain(dsa_free(cells, p), cells[p].next)

\* del(key): the value is cleaned up by its tag, then the key is deleted
del(tab, cells, key) ==
    LET r   == spdb_find(tab, ArgDss(key))
        arm == CASE r.e.valtyp = "SPVAL_STRING" -> "string"
                 [] r.e.valtyp = "SPVAL_LIST"   -> "list"
                 [] r.e.valtyp = "SPVAL_HASH"   -> "hash"
                 [] r.e.valtyp = "SPVAL_SET"    -> "set"
                 [] OTHER                       -> "none"
    IN  IF ~r.found THEN Out(tab, cells, RBool(FALSE), "none")
        ELSE IF arm # "none" /\ r.e.arm # arm
        THEN Out(tab, cells, RBool(TRUE), "del: the arm of the tag was never written")
        ELSE Out(dshash_delete_key(tab, ArgDss(key)),
                 IF arm = "list" THEN FreeChain(cells, r.e.list.head) ELSE cells,
                 RBool(TRUE), "none")

(* -------------------------------- locks ------------------------------- *)

\* The lock calls of each command, in the order of its code.  "top" is the
\* partition lock that dshash_find / dshash_find_or_insert on g_htab returns
\* with (dshash_find returns none when it finds nothing), "nested" the same
\* on the table of a set or a hash, "db" the LWLock of the SpatDB.
Acq(l) == <<"acquire", l>>
Rel(l) == <<"release", l>>

\* spget, sptype, getexpireat, scard: spdb_find, and spdb_release_lock if (entry)
locks_find(tab, cells, key) ==
    IF spdb_find(tab, ArgDss(key)).found THEN <<Acq("top"), Rel("top")>> ELSE <<>>

\* spset_generic, lpush, rpush, llen, lpop: spdb_find_or_insert, spdb_release_lock
locks_find_or_insert(tab, cells, key) == <<Acq("top"), Rel("top")>>

\* a sadd that locks the member before the entry
locks_sadd_nested_first(tab, cells, key, member) ==
    <<Acq("nested"), Acq("top"), Rel("top"), Rel("nested")>>

\* sadd, hset: both find_or_insert, the nested lock released first
locks_sadd(tab, cells, key, member) == <<Acq("top"), Acq("nested"), Rel("nested"), Rel("top")>>

\* sismember: the top lock is released before the nested dshash_find
locks_sismember(tab, cells, key, member) ==
    LET r == spdb_find(tab, ArgDss(key))
    IN  IF ~r.found THEN <<>>
        ELSE <<Acq("top"), Rel("top")>>
             \o (IF set_find(r.e.set.tab, ArgDss(member)) # {}
                 THEN <<Acq("nested"), Rel("nested")>> ELSE <<>>)

\* srem: spdb_find; dshash_delete_key takes and releases the nested lock itself
locks_srem(tab, cells, key, member) ==
    IF spdb_find(tab, ArgDss(key)).found
    THEN <<Acq("top"), Acq("nested"), Rel("nested"), Rel("top")>> ELSE <<>>

\* an hget that keeps the lock of the field it found
locks_hget_keep(tab, cells, key, field) ==
    LET r == spdb_find(tab, ArgDss(key))
    IN  IF ~r.found THEN <<>>
        ELSE <<Acq("top")>>
             \o (IF r.e.valtyp = "SPVAL_HASH" /\ hash_find(r.e.hash.tab, ArgDss(field)) # {}
                 THEN <<Acq("nested")>> ELSE <<>>)
             \o <<Rel("top")>>

\* hget: the nested dshash_find only under the tag SPVAL_HASH, its lock
\* released if (sphsntry != NULL); the top lock released if (dbentry)
locks_hget(tab, cells, key, field) ==
    LET r == spdb_find(tab, ArgDss(key))
    IN  IF ~r.found THEN <<>>
        ELSE <<Acq("top")>>
             \o (IF r.e.valtyp = "SPVAL_HASH" /\ hash_find(r.e.hash.tab, ArgDss(field)) # {}
                 THEN <<Acq("nested"), Rel("nested")>> ELSE <<>>)
             \o <<Rel("top")>>

\* del: SPDB_LOCK_EXCLUSIVE around it all; under the tag of a set or a hash
\* the scan of the nested table takes its partition locks at dshash_seq_next
\* and dshash_seq_term releases the last; the entry lock is released before
\* dshash_delete_key, which takes and releases the partition lock itself
locks_del(tab, cells, key) ==
    LET r == spdb_find(tab, ArgDss(key))
    IN  <<Acq("db")>>
        \o (IF r.found
            THEN <<Acq("top")>>
                 \o (IF r.e.valtyp \in {"SPVAL_SET", "SPVAL_HASH"}
                     THEN <<Acq("nested"), Rel("nested")>> ELSE <<>>)
                 \o <<Rel("top"), Acq("top"), Rel("top")>>
            ELSE <<>>)
        \o <<Rel("db")>>

LockOps == {"spset", "spget", "sptype", "getexpireat", "sadd", "sismember", "srem", "scard",
            "lpush", "rpush", "llen", "lpop", "hset", "hget", "del"}

LockTrace(op, tab, cells, key, a) ==
    CASE op \in {"spget", "sptype", "getexpireat", "scard"} -> locks_find(tab, cells, key)
      [] op \in {"spset", "lpush", "rpush", "llen", "lpop"} -> locks_find_or_insert(tab, cells, key)
      [] op \in {"sadd", "hset"} -> locks_sadd(tab, cells, key, a)
      [] op = "sismember" -> locks_sismember(tab, cells, key, a)
      [] op = "srem" -> locks_srem(tab, cells, key, a)
      [] op = "hget" -> locks_hget(tab, cells, key, a)
      [] op = "del" -> locks_del(tab, cells, key)

\* the locks held after the calls of tr, starting with those of held; "bad"
\* marks a release of a lock not held or an acquire of one held
RECURSIVE HeldAfter(_, _)
HeldAfter(tr, held) ==
    IF tr = <<>> THEN held
    ELSE IF Head(tr)[1] = "acquire"
    THEN (IF Head(tr)[2] \in held THEN {"bad"} ELSE HeldAfter(Tail(tr), held \cup {Head(tr)[2]}))
    ELSE (IF Head(tr)[2] \notin held THEN {"bad"} ELSE HeldAfter(Tail(tr), held \ {Head(tr)[2]}))

\* spat_attach_shmem, from a backend whose g_dsa and g_htab are NULL: the
\* LWLock of the SpatDB is taken shared around dsa_attach and again around
\* dshash_attach
locks_attach == <<Acq("db"), Rel("db"), Acq("db"), Rel("db")>>

\* every lock call of a command, from its attach to its return
CommandLocks(op, tab, cells, key, a) == locks_attach \o LockTrace(op, tab, cells, key, a)

\* The lock calls of tr keep the order: no top-level partition lock and no
\* LWLock of the SpatDB is requested while a nested partition lock is held,
\* and a nested one is requested only when the top-level one was taken
\* before it (topped).
RECURSIVE LockOrderOk(_, _, _)
LockOrderOk(tr, held, topped) ==
    IF tr = <<>> THEN TRUE
    ELSE IF Head(tr)[1] = "release"
    THEN LockOrderOk(Tail(tr), held \ {Head(tr)[2]}, topped)
    ELSE /\ Head(tr)[2] \in {"top", "db"} => "nested" \notin held
         /\ Head(tr)[2] = "nested" => topped
         /\ LockOrderOk(Tail(tr), held \cup {Head(tr)[2]}, topped \/ Head(tr)[2] = "top")

(* ------------------------------- state -------------------------------- *)

VARIABLES
    htab,    \* the top-level dshash table: a set of SpatDBEntry
    cells,   \* the list_element blocks of the DSA
    fault,   \* "none", or the memory error that ended the run
    ret,     \* the command that returned last: its name, arguments and result
    hist,    \* per key: "never" written, or the kind written last, or "deleted"
    strset,  \* per key: the value of the last SPSET with no write to the key since
    lstack,  \* per key: the LPUSHed elements not yet LPOPped, newest first (s),
             \* and the RPUSHed elements not yet LPOPped, oldest first (q)
    nwrites, \* the number of commands that wrote to the table
    pc,      \* SpecSadd: where each backend is in its sadd
    g_dsa,   \* SpatDB.g_dsa in the shared segment: NULL, or the dsa_area of a backend
    g_htab,  \* SpatDB.g_htab in the shared segment: NULL, or the dshash_table of a backend
    lck,     \* SpecSadd: the backend holding the partition lock of the key, or NULL
    g_guc_spat_db_name, \* the GUC spat.db of the session
    dsm_registry,       \* SpecDb: the named DSM segments, each a SpatDB of its own
    natt,    \* SpecAttach: per backend, the dsa_area attachments it holds
    ninit,   \* SpecAttach: how many times spat_init_shmem has run
    lwlocks, \* SpecConc: per lock, the backend holding it exclusive and those holding it shared
    frame    \* SpecConc: per backend, the command it runs and the locals of its handler

vars == <<htab, cells, fault, ret, hist, strset, lstack, nwrites, pc, g_dsa, g_htab, lck,
          g_guc_spat_db_name, dsm_registry, natt, ninit, lwlocks, frame>>
named == <<g_guc_spat_db_name, dsm_registry>>
attach == <<natt, ninit>>
locking == <<lwlocks, frame>>
conc == <<pc, g_dsa, g_htab, lck, named, attach, locking>>
seq == <<cells, ret, hist, strset, lstack, nwrites, named, attach, locking>>

\* The LWLocks: SpatDB.lck, the partition lock of each key in g_htab (keys
\* <<1>> and <<2>> hash to partitions of their own, in this order), and the
\* partition lock of the nested table of a set.
LockNames == {"db", "top1", "top2", "nested"}
TopLock(k) == IF k = <<1>> THEN "top1" ELSE "top2"
NoHolder == [x |-> 0, s |-> {}]
NoLocks == [l \in LockNames |-> NoHolder]
\* the commands of SpecConc
ConcOps == {"del", "sismember", "sadd", "nitems"}
NoFrame(op) ==
    [op |-> op, found |-> FALSE, stale |-> FALSE, destroyed |-> FALSE, pos |-> 0,
     seen |-> <<>>, alive |-> {}, exhausted |-> 0, res |-> RVoid]

\* Spec and SpecSadd run under the boot value of spat.db: htab and cells are
\* the segment of that name.
SPAT_NAME_DEFAULT == "spat-default"
Dbs == {SPAT_NAME_DEFAULT, "db1"}
\* spat_init_shmem: a new dsa_area and an empty dshash table in it
NewDb == [tab |-> {}, cells |-> [p \in CellPtrs |-> FreeCell]]
NoSegments == [n \in {} |-> NewDb]

Procs == 1 .. NProcs
NULL == 0
NoArg == <<>>
ZeroJunk == CHOOSE j \in Junk : j.zero

InitRet == [op |-> "none", key |-> NoArg, a |-> NoArg, b |-> NoArg, was |-> "absent", res |-> RVoid]

\* What the two find_or_insert of a command found (dbentryfound and
\* setelementfound in sadd): no entry, an entry, or an entry holding a as well.
Was(tab, key, a) ==
    LET r == spdb_find(tab, ArgDss(key))
    IN  IF ~r.found THEN "absent"
        ELSE IF r.e.arm = "set" /\ set_find(r.e.set.tab, ArgDss(a)) # {} THEN "member"
        ELSE IF r.e.arm = "hash" /\ hash_find(r.e.hash.tab, ArgDss(a)) # {} THEN "member"
        ELSE "present"
NoStr == [set |-> FALSE, v |-> NoArg]
NoStack == [ok |-> FALSE, s |-> <<>>, fifo |-> FALSE, q |-> <<>>]
EmptyStack == [ok |-> TRUE, s |-> <<>>, fifo |-> TRUE, q |-> <<>>]

Init ==
    /\ htab = {}
    /\ cells = [p \in CellPtrs |-> FreeCell]
    /\ fault = "none"
    /\ ret = InitRet
    /\ hist = [k \in Keys |-> "never"]
    /\ strset = [k \in Keys |-> NoStr]
    /\ lstack = [k \in Keys |-> EmptyStack]
    /\ nwrites = 0
    /\ pc = [p \in Procs |-> "idle"]
    /\ g_dsa = NULL
    /\ g_htab = NULL
    /\ lck = NULL
    /\ g_guc_spat_db_name = SPAT_NAME_DEFAULT
    /\ dsm_registry = NoSegments
    /\ natt = [p \in 1 .. NProcs |-> 0]
    /\ ninit = 0
    /\ lwlocks = NoLocks
    /\ frame = [p \in 1 .. NProcs |-> NoFrame("none")]

\* A memory error (a wild pointer, a failed Assert) ends the run: the backend
\* dies and the postmaster resets the shared memory of every backend.
Crash(op, key, a, b, out) ==
    /\ fault' = out.fault
    /\ ret' = [op |-> op, key |-> key, a |-> a, b |-> b, was |-> Was(htab, key, a), res |-> RVoid]
    /\ htab' = {}
    /\ cells' = [p \in CellPtrs |-> FreeCell]
    /\ hist' = [k \in Keys |-> "never"]
    /\ strset' = [k \in Keys |-> NoStr]
    /\ lstack' = [k \in Keys |-> EmptyStack]
    /\ nwrites' = 0
    /\ UNCHANGED conc

\* A write command returns: its effect on the table and the cells, the record
\* of what it returned, and the history of its key.
Wrote(op, key, a, b, out, kind, str, stack) ==
    /\ fault = "none"
    /\ nwrites < MaxWrites
    /\ IF out.fault # "none" THEN Crash(op, key, a, b, out)
       ELSE /\ fault' = fault
            /\ nwrites' = nwrites + 1
            /\ ret' = [op |-> op, key |-> key, a |-> a, b |-> b, was |-> Was(htab, key, a),
                        res |-> out.res]
            /\ htab' = out.tab
            /\ cells' = out.cells
            /\ hist' = [hist EXCEPT ![key] = kind]
            /\ strset' = [strset EXCEPT ![key] = str]
            /\ lstack' = [lstack EXCEPT ![key] = stack]
            /\ UNCHANGED conc

\* A read command returns: whatever it did to the table and the cells; it is
\* recorded in ret when it wrote to the table, and the history of its key stays.
Read(op, key, a, out) ==
    /\ fault = "none"
    /\ IF out.fault # "none" THEN Crash(op, key, a, NoArg, out)
       ELSE /\ htab' = out.tab
            /\ cells' = out.cells
            /\ out.tab # htab => nwrites < MaxWrites
            /\ nwrites' = IF out.tab # htab THEN nwrites + 1 ELSE nwrites
            /\ ret' = IF out.tab # htab
                      THEN [op |-> op, key |-> key, a |-> a, b |-> NoArg,
                            was |-> Was(htab, key, a), res |-> out.res]
                      ELSE ret
            /\ UNCHANGED <<fault, hist, strset, lstack, conc>>

Present(tab, k) == dshash_find(tab, ArgDss(k)) # {}

(* ------------------------------ commands ------------------------------ *)

SpSet(k, v, ex) ==
    Wrote("spset", k, v, IF ex # 0 THEN <<ex>> ELSE NoArg, spset_generic(htab, cells, k, MkText(v), ex, ZeroJunk),
          "string", [set |-> TRUE, v |-> v], NoStack)

SpGet(k) == Read("spget", k, NoArg, spget(htab, cells, k))

SpType(k) == Read("sptype", k, NoArg, sptype(htab, cells, k))

GetExpireAt(k) ==
    \E g \in ExpireJunk : Read("getexpireat", k, NoArg, getexpireat(htab, cells, k, g))

NItems == Read("nitems", NoArg, NoArg, sp_db_nitems(htab, cells))

Sadd(k, m) ==
    Wrote("sadd", k, m, NoArg, sadd(htab, cells, k, m, ZeroJunk), "set", NoStr, NoStack)

SIsMember(k, m) == Read("sismember", k, m, sismember(htab, cells, k, m))

\* SREM of a key with no entry writes nothing
SRem(k, m) ==
    IF Present(htab, k)
    THEN Wrote("srem", k, m, NoArg, srem(htab, cells, k, m), hist[k], NoStr, NoStack)
    ELSE Wrote("srem", k, m, NoArg, srem(htab, cells, k, m), hist[k], strset[k], lstack[k])

SCard(k) == Read("scard", k, NoArg, scard(htab, cells, k))

\* LPUSH and RPUSH need a free cell: dsa_allocate raises an error without one
LPush(k, x) ==
    /\ HasFree(cells)
    /\ Wrote("lpush", k, x, NoArg, lpush(htab, cells, k, x, ZeroJunk), "list", NoStr,
             IF lstack[k].ok THEN [NoStack EXCEPT !.ok = TRUE, !.s = <<x>> \o lstack[k].s]
             ELSE NoStack)

RPush(k, x) ==
    /\ HasFree(cells)
    /\ Wrote("rpush", k, x, NoArg, rpush(htab, cells, k, x, ZeroJunk), "list", NoStr,
             IF lstack[k].fifo THEN [NoStack EXCEPT !.fifo = TRUE, !.q = lstack[k].q \o <<x>>]
             ELSE NoStack)

\* LLEN is a read; the bytes of the item it inserts for an absent key are any
LLen(k) ==
    \E j \in (IF Present(htab, k) THEN {ZeroJunk} ELSE Junk) :
        Read("llen", k, NoArg, llen(htab, cells, k, j))

\* LPOP of a key that was never written or was deleted is taken as a write of
\* it ("popped")
LPop(k) ==
    \E j \in (IF Present(htab, k) THEN {ZeroJunk} ELSE Junk) :
        Wrote("lpop", k, NoArg, NoArg, lpop(htab, cells, k, j),
              IF hist[k] \in {"never", "deleted"} THEN "popped" ELSE hist[k], NoStr,
              [lstack[k] EXCEPT
                  !.s = IF lstack[k].s # <<>> THEN Tail(lstack[k].s) ELSE <<>>,
                  !.q = IF lstack[k].q # <<>> THEN Tail(lstack[k].q) ELSE <<>>])

HSet(k, f, v) ==
    Wrote("hset", k, f, v, hset(htab, cells, k, f, v, ZeroJunk), "hash", NoStr, NoStack)

HGet(k, f) == Read("hget", k, f, hget(htab, cells, k, f))

\* DEL of a key with no entry writes nothing
Del(k) ==
    IF Present(htab, k)
    THEN Wrote("del", k, NoArg, NoArg, del(htab, cells, k), "deleted", NoStr, EmptyStack)
    ELSE Wrote("del", k, NoArg, NoArg, del(htab, cells, k), hist[k], strset[k], lstack[k])

\* The clock (GetCurrentTimestamp) passes the expireat that SPSET computed for
\* the entries with a ttl.  No command runs: nothing but the clock changes.
Elapse ==
    /\ fault = "none"
    /\ \E e \in htab : e.expireat = "ttl"
    /\ htab' = {IF e.expireat = "ttl" THEN [e EXCEPT !.expireat = "past"] ELSE e : e \in htab}
    /\ UNCHANGED <<cells, fault, ret, hist, strset, lstack, nwrites, conc>>

Next ==
    \/ \E k \in Keys, v \in Values, ex \in {0, 1} : SpSet(k, v, ex)
    \/ \E k \in Keys : SpGet(k)
    \/ \E k \in Keys : SpType(k)
    \/ \E k \in Keys : GetExpireAt(k)
    \/ NItems
    \/ \E k \in Keys, m \in Members : Sadd(k, m)
    \/ \E k \in Keys, m \in Members : SIsMember(k, m)
    \/ \E k \in Keys, m \in Members : SRem(k, m)
    \/ \E k \in Keys : SCard(k)
    \/ \E k \in Keys, x \in Members : LPush(k, x)
    \/ \E k \in Keys, x \in Members : RPush(k, x)
    \/ \E k \in Keys : LLen(k)
    \/ \E k \in Keys : LPop(k)
    \/ \E k \in Keys, f \in Fields, v \in Members : HSet(k, f, v)
    \/ \E k \in Keys, f \in Fields : HGet(k, f)
    \/ \E k \in Keys : Del(k)
    \/ Elapse

Spec == Init /\ [][Next]_vars

(* --------------------------- concurrent SADD -------------------------- *)

\* Every backend runs sadd(SaddKey, SaddMember(p)) once.  g_dsa and g_htab are
\* fields of the SpatDB struct in the shared segment, so a backend reads the
\* pointer the backend that wrote last left there.
SaddKey == <<1>>
SaddMember(p) == <<p>>
BaseMember == <<NProcs + 1>>

InitSadd ==
    /\ htab \in {{}, sadd({}, [p \in CellPtrs |-> FreeCell], SaddKey, BaseMember, ZeroJunk).tab}
    /\ cells = [p \in CellPtrs |-> FreeCell]
    /\ fault = "none"
    /\ ret = InitRet
    /\ hist = [k \in Keys |-> "never"]
    /\ strset = [k \in Keys |-> NoStr]
    /\ lstack = [k \in Keys |-> EmptyStack]
    /\ nwrites = 0
    /\ pc = [p \in Procs |-> "check_dsa"]
    /\ g_dsa = NULL
    /\ g_htab = NULL
    /\ lck = NULL
    /\ g_guc_spat_db_name = SPAT_NAME_DEFAULT
    /\ dsm_registry = NoSegments
    /\ natt = [p \in 1 .. NProcs |-> 0]
    /\ ninit = 0
    /\ lwlocks = NoLocks
    /\ frame = [p \in 1 .. NProcs |-> NoFrame("none")]

\* A backend dies of a memory error: the postmaster terminates the others and
\* resets the shared memory.
Die(why) ==
    /\ fault' = why
    /\ htab' = {}
    /\ pc' = [q \in Procs |-> IF pc[q] = "done" THEN "done" ELSE "crashed"]
    /\ g_dsa' = NULL
    /\ g_htab' = NULL
    /\ lck' = NULL
    /\ UNCHANGED seq

\* Backend p dereferences a pointer read from the shared struct.  Its own
\* pointer is good.  NULL is a segmentation fault.  The pointer of another
\* backend is an address of that backend's memory: the access is undefined,
\* it can fault or find bytes it can go on with.
Deref(p, g) ==
    IF g = p THEN {"ok"}
    ELSE IF g = NULL THEN {"fault"}
    ELSE {"ok", "fault"}

\* spat_attach_shmem: if (!g_spat_db->g_dsa)
SaddCheckDsa(p) ==
    /\ pc[p] = "check_dsa"
    /\ pc' = [pc EXCEPT ![p] = IF g_dsa = NULL THEN "attach_dsa" ELSE "check_htab"]
    /\ UNCHANGED <<htab, fault, g_dsa, g_htab, lck, seq>>

\* g_spat_db->g_dsa = dsa_attach(...), under the LWLock in shared mode
SaddAttachDsa(p) ==
    /\ pc[p] = "attach_dsa"
    /\ g_dsa' = p
    /\ pc' = [pc EXCEPT ![p] = "check_htab"]
    /\ UNCHANGED <<htab, fault, g_htab, lck, seq>>

\* if (!g_spat_db->g_htab)
SaddCheckHtab(p) ==
    /\ pc[p] = "check_htab"
    /\ pc' = [pc EXCEPT ![p] = IF g_htab = NULL THEN "attach_htab" ELSE "args"]
    /\ UNCHANGED <<htab, fault, g_dsa, g_htab, lck, seq>>

\* g_spat_db->g_htab = dshash_attach(g_spat_db->g_dsa, ...)
SaddAttachHtab(p) ==
    /\ pc[p] = "attach_htab"
    /\ \E o \in Deref(p, g_dsa) :
          IF o = "fault" THEN Die("spat_attach_shmem: g_dsa is not a dsa_area of this backend")
          ELSE /\ g_htab' = p
               /\ pc' = [pc EXCEPT ![p] = "args"]
               /\ UNCHANGED <<htab, fault, g_dsa, lck, seq>>

\* PG_GETARG_DSS(0), PG_GETARG_DSS(1): dss_new(g_spat_db->g_dsa, ...)
SaddArgs(p) ==
    /\ pc[p] = "args"
    /\ \E o \in Deref(p, g_dsa) :
          IF o = "fault" THEN Die("PG_GETARG_DSS: g_dsa is not a dsa_area of this backend")
          ELSE /\ pc' = [pc EXCEPT ![p] = "insert"]
               /\ UNCHANGED <<htab, fault, g_dsa, g_htab, lck, seq>>

\* spdb_find_or_insert takes the partition lock of the key; the nested table
\* is created or attached through g_dsa, the member inserted and counted.
SaddInsert(p) ==
    /\ pc[p] = "insert"
    /\ lck = NULL
    /\ \E o \in Deref(p, g_htab), o2 \in Deref(p, g_dsa) :
          IF o = "fault" \/ o2 = "fault"
          THEN Die("sadd: g_htab or g_dsa is not of this backend")
          ELSE /\ htab' = sadd(htab, cells, SaddKey, SaddMember(p), ZeroJunk).tab
               /\ lck' = p
               /\ pc' = [pc EXCEPT ![p] = "release"]
               /\ UNCHANGED <<fault, g_dsa, g_htab, seq>>

\* spdb_release_lock(g_spat_db, dbentry): dshash_release_lock(db->g_htab, entry)
SaddRelease(p) ==
    /\ pc[p] = "release"
    /\ \E o \in Deref(p, g_htab) :
          IF o = "fault" THEN Die("spdb_release_lock: g_htab is not of this backend")
          ELSE /\ lck' = NULL
               /\ pc' = [pc EXCEPT ![p] = "detach_dsa"]
               /\ UNCHANGED <<htab, fault, g_dsa, g_htab, seq>>

\* spat_detach_shmem: if (g_dsa) { dsa_detach(g_dsa); g_dsa = NULL; }
SaddDetachDsa(p) ==
    /\ pc[p] = "detach_dsa"
    /\ IF g_dsa = NULL
       THEN /\ pc' = [pc EXCEPT ![p] = "detach_htab"]
            /\ UNCHANGED <<htab, fault, g_dsa, g_htab, lck, seq>>
       ELSE \E o \in Deref(p, g_dsa) :
               IF o = "fault" THEN Die("spat_detach_shmem: g_dsa is not of this backend")
               ELSE /\ g_dsa' = NULL
                    /\ pc' = [pc EXCEPT ![p] = "detach_htab"]
                    /\ UNCHANGED <<htab, fault, g_htab, lck, seq>>

\* if (g_htab) { dshash_detach(g_htab); g_htab = NULL; }
SaddDetachHtab(p) ==
    /\ pc[p] = "detach_htab"
    /\ IF g_htab = NULL
       THEN /\ pc' = [pc EXCEPT ![p] = "done"]
            /\ UNCHANGED <<htab, fault, g_dsa, g_htab, lck, seq>>
       ELSE \E o \in Deref(p, g_htab) :
               IF o = "fault" THEN Die("spat_detach_shmem: g_htab is not of this backend")
               ELSE /\ g_htab' = NULL
                    /\ pc' = [pc EXCEPT ![p] = "done"]
                    /\ UNCHANGED <<htab, fault, g_dsa, lck, seq>>

NextSadd ==
    \/ \E p \in Procs : SaddCheckDsa(p)
    \/ \E p \in Procs : SaddAttachDsa(p)
    \/ \E p \in Procs : SaddCheckHtab(p)
    \/ \E p \in Procs : SaddAttachHtab(p)
    \/ \E p \in Procs : SaddArgs(p)
    \/ \E p \in Procs : SaddInsert(p)
    \/ \E p \in Procs : SaddRelease(p)
    \/ \E p \in Procs : SaddDetachDsa(p)
    \/ \E p \in Procs : SaddDetachHtab(p)

SpecSadd == InitSadd /\ [][NextSadd]_vars

(* --------------------------- named databases -------------------------- *)

\* GetNamedDSMSegment(name, sizeof(SpatDB), spat_init_shmem, &found): the
\* segment of the name, created and initialised when the registry has none.
GetNamedDSMSegment(reg, name) ==
    IF name \in DOMAIN reg THEN reg
    ELSE [n \in DOMAIN reg \cup {name} |-> IF n \in DOMAIN reg THEN reg[n] ELSE NewDb]

\* spat_attach_shmem: g_spat_db is the segment named by spat.db
g_spat_db == GetNamedDSMSegment(dsm_registry, g_guc_spat_db_name)[g_guc_spat_db_name]

InitDb ==
    /\ htab = {}
    /\ cells = [p \in CellPtrs |-> FreeCell]
    /\ fault = "none"
    /\ ret = InitRet
    /\ hist = [k \in Keys |-> "never"]
    /\ strset = [k \in Keys |-> NoStr]
    /\ lstack = [k \in Keys |-> EmptyStack]
    /\ nwrites = 0
    /\ pc = [p \in Procs |-> "idle"]
    /\ g_dsa = NULL
    /\ g_htab = NULL
    /\ lck = NULL
    /\ g_guc_spat_db_name = SPAT_NAME_DEFAULT
    /\ dsm_registry = NoSegments
    /\ natt = [p \in 1 .. NProcs |-> 0]
    /\ ninit = 0
    /\ lwlocks = NoLocks
    /\ frame = [p \in 1 .. NProcs |-> NoFrame("none")]

dbframe == <<htab, cells, hist, strset, lstack, pc, g_dsa, g_htab, lck, attach, locking>>

\* SET spat.db = d
SetDb(d) ==
    /\ fault = "none"
    /\ d # g_guc_spat_db_name
    /\ g_guc_spat_db_name' = d
    /\ UNCHANGED <<dsm_registry, fault, ret, nwrites, dbframe>>

\* A command runs on the segment spat_attach_shmem gave it.  A memory error
\* ends the backend: the postmaster resets all shared memory, every named
\* segment with it, and a new session starts under the boot value of spat.db.
DbCmd(op, key, a, out) ==
    /\ fault = "none"
    /\ out.tab # g_spat_db.tab => nwrites < MaxWrites
    /\ IF out.fault # "none"
       THEN /\ fault' = out.fault
            /\ dsm_registry' = NoSegments
            /\ g_guc_spat_db_name' = SPAT_NAME_DEFAULT
            /\ nwrites' = 0
            /\ ret' = [InitRet EXCEPT !.op = op, !.key = key, !.a = a]
       ELSE /\ dsm_registry' = [GetNamedDSMSegment(dsm_registry, g_guc_spat_db_name)
                                   EXCEPT ![g_guc_spat_db_name] = [tab |-> out.tab, cells |-> out.cells]]
            /\ nwrites' = IF out.tab # g_spat_db.tab THEN nwrites + 1 ELSE nwrites
            /\ ret' = IF out.tab # g_spat_db.tab
                      THEN [InitRet EXCEPT !.op = op, !.key = key, !.a = a, !.res = out.res]
                      ELSE ret
            /\ UNCHANGED <<fault, g_guc_spat_db_name>>
    /\ UNCHANGED dbframe

DbSpSet(k, v) ==
    DbCmd("spset", k, v, spset_generic(g_spat_db.tab, g_spat_db.cells, k, MkText(v), 0, ZeroJunk))
DbSpGet(k) == DbCmd("spget", k, NoArg, spget(g_spat_db.tab, g_spat_db.cells, k))
DbNItems == DbCmd("nitems", NoArg, NoArg, sp_db_nitems(g_spat_db.tab, g_spat_db.cells))
DbSadd(k, m) == DbCmd("sadd", k, m, sadd(g_spat_db.tab, g_spat_db.cells, k, m, ZeroJunk))
DbDel(k) == DbCmd("del", k, NoArg, del(g_spat_db.tab, g_spat_db.cells, k))

NextDb ==
    \/ \E d \in Dbs : SetDb(d)
    \/ \E k \in Keys, v \in Values : DbSpSet(k, v)
    \/ \E k \in Keys : DbSpGet(k)
    \/ DbNItems
    \/ \E k \in Keys, m \in Members : DbSadd(k, m)
    \/ \E k \in Keys : DbDel(k)

SpecDb == InitDb /\ [][NextDb]_vars

(* --------------------------- attach and detach ------------------------ *)

\* Backends run commands one after another, each command between
\* spat_attach_shmem and spat_detach_shmem; the steps of different backends
\* interleave.  nwrites counts the commands started.

\* a pointer to backend memory that the abort of a transaction has released
Dangling == -1

\* spat_init_shmem, the callback of GetNamedDSMSegment for a new name:
\* dsa_create holds one reference, dsa_pin adds one, dsa_detach drops one.
\* n stands for what this run makes: its handles and its created_at.
spat_init_shmem(n) ==
    [dsa_handle |-> n, htab_handle |-> n, created_at |-> n, refcnt |-> 1 + 1 - 1]

\* a GetNamedDSMSegment that runs the callback for a name it has already
GetNamedDSMSegmentAgain(reg, name, n) ==
    [m \in DOMAIN reg \cup {name} |-> IF m = name THEN spat_init_shmem(n) ELSE reg[m]]

\* GetNamedDSMSegment(name, sizeof(SpatDB), spat_init_shmem, &found): lookup,
\* creation and callback happen under the registry lock, as one step.
GetNamedDSMSegmentInit(reg, name, n) ==
    IF name \in DOMAIN reg THEN reg
    ELSE [m \in DOMAIN reg \cup {name} |-> IF m = name THEN spat_init_shmem(n) ELSE reg[m]]

dsa_attach(db) == [db EXCEPT !.refcnt = @ + 1]

\* a dsa_detach that drops the reference of dsa_pin with its own
dsa_detach_unpin(db) == [db EXCEPT !.refcnt = 0]

\* dsa_detach: one reference less
dsa_detach(db) == [db EXCEPT !.refcnt = @ - 1]

\* the area is destroyed, and what it held with it, when its last reference goes
AreaAfter(db, held, none) == IF db.refcnt = 0 THEN none ELSE held

spdb_is_attached == g_dsa # NULL /\ g_htab # NULL

InitAttach ==
    /\ htab = {}
    /\ cells = [p \in CellPtrs |-> FreeCell]
    /\ fault = "none"
    /\ ret = InitRet
    /\ hist = [k \in Keys |-> "never"]
    /\ strset = [k \in Keys |-> NoStr]
    /\ lstack = [k \in Keys |-> EmptyStack]
    /\ nwrites = 0
    /\ pc = [p \in Procs |-> "idle"]
    /\ g_dsa = NULL
    /\ g_htab = NULL
    /\ lck = NULL
    /\ g_guc_spat_db_name = SPAT_NAME_DEFAULT
    /\ dsm_registry = NoSegments
    /\ natt = [p \in Procs |-> 0]
    /\ ninit = 0
    /\ lwlocks = NoLocks
    /\ frame = [p \in 1 .. NProcs |-> NoFrame("none")]

atframe == <<ret, hist, lstack, lck, g_guc_spat_db_name, locking>>

\* a command is called: spat_attach_shmem begins with GetNamedDSMSegment
AtCall(p) ==
    /\ fault = "none"
    /\ pc[p] = "idle"
    /\ nwrites < MaxWrites
    /\ nwrites' = nwrites + 1
    /\ dsm_registry' = GetNamedDSMSegmentInit(dsm_registry, g_guc_spat_db_name, ninit + 1)
    /\ ninit' = IF g_guc_spat_db_name \in DOMAIN dsm_registry
                    /\ dsm_registry'[g_guc_spat_db_name] = dsm_registry[g_guc_spat_db_name]
                 THEN ninit ELSE ninit + 1
    /\ pc' = [pc EXCEPT ![p] = "check_dsa"]
    /\ UNCHANGED <<htab, cells, fault, strset, g_dsa, g_htab, natt, atframe>>

\* elog(ERROR) ends the command without spat_detach_shmem.  The abort of the
\* transaction releases what the backend attached, g_dsa and g_htab keep
\* pointing at it.
AtError(p) ==
    LET db == IF natt[p] > 0 THEN dsa_detach(dsm_registry[g_guc_spat_db_name])
              ELSE dsm_registry[g_guc_spat_db_name]
    IN  /\ natt' = [natt EXCEPT ![p] = 0]
        /\ dsm_registry' = [dsm_registry EXCEPT ![g_guc_spat_db_name] = db]
        /\ htab' = AreaAfter(db, htab, {})
        /\ g_dsa' = IF g_dsa = p THEN Dangling ELSE g_dsa
        /\ g_htab' = IF g_htab = p THEN Dangling ELSE g_htab
        /\ pc' = [pc EXCEPT ![p] = "idle"]
        /\ UNCHANGED <<cells, fault, strset, nwrites, ninit, atframe>>

\* if (!g_spat_db->g_dsa)
AtCheckDsa(p) ==
    /\ pc[p] = "check_dsa"
    /\ pc' = [pc EXCEPT ![p] = IF g_dsa = NULL THEN "attach_dsa" ELSE "check_htab"]
    /\ UNCHANGED <<htab, cells, fault, strset, nwrites, g_dsa, g_htab, named, attach, atframe>>

\* g_spat_db->g_dsa = dsa_attach(g_spat_db->dsa_handle).  dsa_attach raises
\* an error in a backend that is attached to the area already, and for an
\* area that is gone.
AtAttachDsa(p) ==
    /\ pc[p] = "attach_dsa"
    /\ IF natt[p] > 0 \/ dsm_registry[g_guc_spat_db_name].refcnt = 0
       THEN AtError(p)
       ELSE /\ natt' = [natt EXCEPT ![p] = 1]
            /\ dsm_registry' = [dsm_registry EXCEPT ![g_guc_spat_db_name] = dsa_attach(@)]
            /\ g_dsa' = p
            /\ pc' = [pc EXCEPT ![p] = "check_htab"]
            /\ UNCHANGED <<htab, cells, fault, strset, nwrites, g_htab, g_guc_spat_db_name, ninit, atframe>>

\* if (!g_spat_db->g_htab)
AtCheckHtab(p) ==
    /\ pc[p] = "check_htab"
    /\ pc' = [pc EXCEPT ![p] = IF g_htab = NULL THEN "attach_htab" ELSE "body"]
    /\ UNCHANGED <<htab, cells, fault, strset, nwrites, g_dsa, g_htab, named, attach, atframe>>

\* g_spat_db->g_htab = dshash_attach(g_spat_db->g_dsa, ...)
AtAttachHtab(p) ==
    /\ pc[p] = "attach_htab"
    /\ \E o \in Deref(p, g_dsa) :
          IF o = "fault" THEN Die("spat_attach_shmem: g_dsa is not a dsa_area of this backend")
          ELSE /\ g_htab' = p
               /\ pc' = [pc EXCEPT ![p] = "body"]
               /\ UNCHANGED <<htab, cells, fault, strset, nwrites, g_dsa, named, attach, atframe>>

\* spset_generic with nx, xx or a NULL value: PG_GETARG_DSS(0), then elog(ERROR)
AtSpSetError(p) ==
    /\ pc[p] = "body"
    /\ \E o \in Deref(p, g_dsa) :
          IF o = "fault" THEN Die("PG_GETARG_DSS: g_dsa is not a dsa_area of this backend")
          ELSE AtError(p)

\* spset_generic(k, v) up to spdb_release_lock
AtSpSet(p, k, v) ==
    /\ pc[p] = "body"
    /\ \E o \in Deref(p, g_dsa), o2 \in Deref(p, g_htab) :
          IF o = "fault" \/ o2 = "fault"
          THEN Die("spset: g_htab or g_dsa is not of this backend")
          ELSE /\ htab' = spset_generic(htab, cells, k, MkText(v), 0, ZeroJunk).tab
               /\ strset' = [strset EXCEPT ![k] = [set |-> TRUE, v |-> v]]
               /\ pc' = [pc EXCEPT ![p] = "detach_dsa"]
               /\ UNCHANGED <<cells, fault, nwrites, g_dsa, g_htab, named, attach, atframe>>

\* spget(k) up to spdb_release_lock
AtSpGet(p, k) ==
    /\ pc[p] = "body"
    /\ \E o \in Deref(p, g_dsa), o2 \in Deref(p, g_htab) :
          IF o = "fault" \/ o2 = "fault"
          THEN Die("spget: g_htab or g_dsa is not of this backend")
          ELSE /\ pc' = [pc EXCEPT ![p] = "detach_dsa"]
               /\ UNCHANGED <<htab, cells, fault, strset, nwrites, g_dsa, g_htab, named, attach, atframe>>

\* spat_detach_shmem: if (g_dsa) { dsa_detach(g_dsa); g_dsa = NULL; }
\* A dsa_detach of a pointer that is not this backend's, when it does not
\* fault, releases nothing this backend holds.
AtDetachDsa(p) ==
    /\ pc[p] = "detach_dsa"
    /\ IF g_dsa = NULL
       THEN /\ pc' = [pc EXCEPT ![p] = "detach_htab"]
            /\ UNCHANGED <<htab, cells, fault, strset, nwrites, g_dsa, g_htab, named, attach, atframe>>
       ELSE \E o \in Deref(p, g_dsa) :
               IF o = "fault" THEN Die("spat_detach_shmem: g_dsa is not of this backend")
               ELSE LET db == IF g_dsa = p THEN dsa_detach(dsm_registry[g_guc_spat_db_name])
                              ELSE dsm_registry[g_guc_spat_db_name]
                    IN  /\ natt' = IF g_dsa = p THEN [natt EXCEPT ![p] = 0] ELSE natt
                        /\ dsm_registry' = [dsm_registry EXCEPT ![g_guc_spat_db_name] = db]
                        /\ htab' = AreaAfter(db, htab, {})
                        /\ g_dsa' = NULL
                        /\ pc' = [pc EXCEPT ![p] = "detach_htab"]
                        /\ UNCHANGED <<cells, fault, strset, nwrites, g_htab, g_guc_spat_db_name, ninit, atframe>>

\* if (g_htab) { dshash_detach(g_htab); g_htab = NULL; } and the command returns
AtDetachHtab(p) ==
    /\ pc[p] = "detach_htab"
    /\ IF g_htab = NULL
       THEN /\ pc' = [pc EXCEPT ![p] = "idle"]
            /\ UNCHANGED <<htab, cells, fault, strset, nwrites, g_dsa, g_htab, named, attach, atframe>>
       ELSE \E o \in Deref(p, g_htab) :
               IF o = "fault" THEN Die("spat_detach_shmem: g_htab is not of this backend")
               ELSE /\ g_htab' = NULL
                    /\ pc' = [pc EXCEPT ![p] = "idle"]
                    /\ UNCHANGED <<htab, cells, fault, strset, nwrites, g_dsa, named, attach, atframe>>

NextAttach ==
    \/ \E p \in Procs : AtCall(p)
    \/ \E p \in Procs : AtCheckDsa(p)
    \/ \E p \in Procs : AtAttachDsa(p)
    \/ \E p \in Procs : AtCheckHtab(p)
    \/ \E p \in Procs : AtAttachHtab(p)
    \/ \E p \in Procs : AtSpSetError(p)
    \/ \E p \in Procs, k \in Keys, v \in Values : AtSpSet(p, k, v)
    \/ \E p \in Procs, k \in Keys : AtSpGet(p, k)
    \/ \E p \in Procs : AtDetachDsa(p)
    \/ \E p \in Procs : AtDetachHtab(p)

SpecAttach == InitAttach /\ [][NextAttach]_vars

(* ------------------------- failing allocations ------------------------ *)

\* dsa_allocate and dshash_create raise ERROR "out of memory" when the area
\* cannot grow.  The error leaves the handler at that call (there is no
\* PG_TRY in spat.c): the writes to the entry made before it stay in the
\* shared table, the rest of the handler does not run.  The area is shared
\* with the strings and the tables, whose bytes `cells` does not count, so a
\* failure is possible in any state.
ROom == Res("error", "out of memory", <<>>, 0)

\* spset_generic whose dsa_allocate of string.str raised: expireat, valtyp
\* and string.len are written, string.str is not.  Under a string the old
\* bytes stay with the new len; any other value is a mix that is no arm.
spset_generic_oom(tab, key, value, ex, j) ==
    LET r  == spdb_find_or_insert(tab, ArgDss(key), j)
        e1 == IF ex # 0 THEN [r.e EXCEPT !.expireat = "ttl"] ELSE r.e
        e2 == IF r.found /\ r.e.arm = "string"
              THEN [e1 EXCEPT !.valtyp = "SPVAL_STRING", !.string.len = VARSIZE_ANY(value)]
              ELSE [e1 EXCEPT !.valtyp = "SPVAL_STRING", !.arm = "uninit",
                              !.string = NoString, !.set = NoTable,
                              !.list = NoList, !.hash = NoTable,
                              !.junk = [zero |-> FALSE, size0 |-> ListSizeIsZero(r.e)]]
    IN  Store(r.tab, r.e, e2)

\* lpush whose dsa_allocate of the list_element raised.  For a new entry
\* valtyp and list.size = 1 are written before it and head and tail are not;
\* for an entry that exists the allocation is the first statement of its branch.
lpush_oom(tab, key, elem, j) ==
    LET r == spdb_find_or_insert(tab, ArgDss(key), j)
    IN  IF ~r.found
        THEN Store(r.tab, r.e, [r.e EXCEPT !.valtyp = "SPVAL_LIST",
                                           !.junk = [zero |-> FALSE, size0 |-> FALSE]])
        ELSE tab

\* sadd whose dshash_create raised: valtyp is written for a new entry,
\* set.hndl and set.size are not.  For an entry that exists nothing was
\* written when the nested dshash_find_or_insert raises.
sadd_oom(tab, key, member, j) ==
    LET r == spdb_find_or_insert(tab, ArgDss(key), j)
    IN  IF ~r.found
        THEN Store(r.tab, r.e, [r.e EXCEPT !.valtyp = "SPVAL_SET"])
        ELSE tab

\* A command ends in the error: what it wrote stays, nothing is known of the
\* value of its key any more.
Failed(op, key, a, b, tab) ==
    Wrote(op, key, a, b, Out(tab, cells, ROom, "none"), hist[key], NoStr, NoStack)

OomSpSet(k, v, ex) ==
    Failed("spset", k, v, IF ex # 0 THEN <<ex>> ELSE NoArg,
           spset_generic_oom(htab, k, MkText(v), ex, ZeroJunk))

OomLPush(k, x) == Failed("lpush", k, x, NoArg, lpush_oom(htab, k, x, ZeroJunk))

OomSadd(k, m) == Failed("sadd", k, m, NoArg, sadd_oom(htab, k, m, ZeroJunk))

\* The lock calls of a handler up to the allocation that raised: the
\* partition lock spdb_find_or_insert returned with is held at dsa_allocate
\* (spset_generic, lpush) and at dshash_create, or at the nested
\* dshash_find_or_insert for a set that exists (sadd); no spdb_release_lock
\* or dshash_release_lock is on the way out of the handler.
locks_oom(op, tab, key) ==
    IF op = "sadd" /\ spdb_find(tab, ArgDss(key)).found
    THEN <<Acq("top"), Acq("nested")>>
    ELSE <<Acq("top")>>

NextOom ==
    \/ \E k \in Keys, v \in Values, ex \in {0, 1} : SpSet(k, v, ex)
    \/ \E k \in Keys, v \in Values, ex \in {0, 1} : OomSpSet(k, v, ex)
    \/ \E k \in Keys, x \in Members : LPush(k, x)
    \/ \E k \in Keys, x \in Members : OomLPush(k, x)
    \/ \E k \in Keys, m \in Members : Sadd(k, m)
    \/ \E k \in Keys, m \in Members : OomSadd(k, m)
    \/ \E k \in Keys : Del(k)

SpecOom == Init /\ [][NextOom]_vars

(* ------------------------- concurrent commands ------------------------ *)

\* Every backend runs one command: del, sismember or sadd of ConcKey, or
\* sp_db_nitems.  The steps are the lock calls of the handlers; LWLockAcquire
\* waits until the lock can be had in the mode asked for.
ConcKey == <<1>>
OldMember == <<1>>
NewMember == <<2>>

CanExcl(l) == lwlocks[l].x = 0 /\ lwlocks[l].s = {}
CanShare(l) == lwlocks[l].x = 0
AcqX(lk, l, p) == [lk EXCEPT ![l].x = p]
AcqS(lk, l, p) == [lk EXCEPT ![l].s = @ \cup {p}]
RelL(lk, l, p) == [lk EXCEPT ![l] = [x |-> IF @.x = p THEN 0 ELSE @.x, s |-> @.s \ {p}]]

\* ConcKey holds a set of one member, the other key a string
ConcTable ==
    spset_generic(sadd({}, [p \in CellPtrs |-> FreeCell], ConcKey, OldMember, ZeroJunk).tab,
                  [p \in CellPtrs |-> FreeCell], <<2>>, MkText(<<1>>), 0, ZeroJunk).tab

InitConc ==
    /\ htab = ConcTable
    /\ cells = [p \in CellPtrs |-> FreeCell]
    /\ fault = "none"
    /\ ret = InitRet
    /\ hist = [k \in Keys |-> "never"]
    /\ strset = [k \in Keys |-> NoStr]
    /\ lstack = [k \in Keys |-> EmptyStack]
    /\ nwrites = 0
    /\ pc = [p \in Procs |-> "check_dsa"]
    /\ g_dsa = NULL
    /\ g_htab = NULL
    /\ lck = NULL
    /\ g_guc_spat_db_name = SPAT_NAME_DEFAULT
    /\ dsm_registry = NoSegments
    /\ natt = [p \in 1 .. NProcs |-> 0]
    /\ ninit = 0
    /\ lwlocks = NoLocks
    /\ frame \in [1 .. NProcs -> {NoFrame(op) : op \in ConcOps}]

cframe == <<cells, fault, ret, hist, strset, lstack, nwrites, lck, named, attach>>

\* the first statement of a handler after spat_attach_shmem and PG_GETARG_DSS
FirstStep(op) ==
    CASE op = "del"       -> "del_lock_db"
      [] op = "sismember" -> "sis_top"
      [] op = "sadd"      -> "sadd_top"
      [] op = "nitems"    -> "scan_init"

\* the steps that go through g_spat_db->g_dsa or g_spat_db->g_htab
DerefPcs == {"del_find", "del_value", "del_release", "del_delete_key",
             "sis_top", "sis_release", "sis_nested",
             "sadd_top", "sadd_nested", "sadd_rel_nested", "sadd_rel_top",
             "scan_init", "scan"}
PtrOk(p) == "ok" \in Deref(p, g_dsa) /\ "ok" \in Deref(p, g_htab)

\* backend p goes to step `to`, leaving the table, the locks and the frames
\* as given
CStep(p, to, tab, lk, fr) ==
    /\ pc' = [pc EXCEPT ![p] = to]
    /\ htab' = tab
    /\ lwlocks' = lk
    /\ frame' = fr
    /\ UNCHANGED <<g_dsa, g_htab, cframe>>

\* a step through a pointer of the shared struct that is not of this backend
CFault(p) ==
    /\ pc[p] \in DerefPcs
    /\ "fault" \in Deref(p, g_dsa) \cup Deref(p, g_htab)
    /\ Die("a command went through g_dsa or g_htab of another backend")

\* spat_attach_shmem: if (!g_spat_db->g_dsa)
CCheckDsa(p) ==
    /\ pc[p] = "check_dsa"
    /\ CStep(p, IF g_dsa = NULL THEN "attach_dsa" ELSE "check_htab", htab, lwlocks, frame)

\* SPDB_LOCK_SHARED; g_dsa = dsa_attach(dsa_handle); SPDB_LOCK_RELEASE
CAttachDsa(p) ==
    /\ pc[p] = "attach_dsa"
    /\ CanShare("db")
    /\ pc' = [pc EXCEPT ![p] = "check_htab"]
    /\ g_dsa' = p
    /\ UNCHANGED <<htab, g_htab, lwlocks, frame, cframe>>

\* if (!g_spat_db->g_htab)
CCheckHtab(p) ==
    /\ pc[p] = "check_htab"
    /\ CStep(p, IF g_htab = NULL THEN "attach_htab" ELSE FirstStep(frame[p].op),
             htab, lwlocks, frame)

\* SPDB_LOCK_SHARED; g_htab = dshash_attach(g_dsa, ...); SPDB_LOCK_RELEASE
CAttachHtab(p) ==
    /\ pc[p] = "attach_htab"
    /\ CanShare("db")
    /\ \E o \in Deref(p, g_dsa) :
          IF o = "fault" THEN Die("spat_attach_shmem: g_dsa is not a dsa_area of this backend")
          ELSE /\ pc' = [pc EXCEPT ![p] = FirstStep(frame[p].op)]
               /\ g_htab' = p
               /\ UNCHANGED <<htab, g_dsa, lwlocks, frame, cframe>>

\* del: SPDB_LOCK_EXCLUSIVE(g_spat_db)
DelLockDb(p) ==
    /\ pc[p] = "del_lock_db"
    /\ CanExcl("db")
    /\ CStep(p, "del_find", htab, AcqX(lwlocks, "db", p), frame)

\* entry = spdb_find(g_spat_db, key, SPDB_ENTRY_LOCK_EXCLUSIVE)
DelFind(p) ==
    /\ pc[p] = "del_find"
    /\ PtrOk(p)
    /\ IF Present(htab, ConcKey)
       THEN /\ CanExcl(TopLock(ConcKey))
            /\ CStep(p, "del_value", htab, AcqX(lwlocks, TopLock(ConcKey), p),
                     [frame EXCEPT ![p].found = TRUE])
       ELSE CStep(p, "del_unlock_db", htab, lwlocks, frame)

\* switch (entry->valtyp): the value is cleaned up.  For a set every item of
\* the nested table is deleted under its partition locks and the table is
\* destroyed; hndl becomes InvalidDsaPointer and size 0.  The backends that
\* have attached the nested table keep the dshash_table of the table that is
\* gone (stale).
DelValue(p) ==
    /\ pc[p] = "del_value"
    /\ PtrOk(p)
    /\ LET e == spdb_find(htab, ArgDss(ConcKey)).e
       IN  IF e.valtyp = "SPVAL_SET" /\ e.arm # "set"
           THEN Die("del: dshash_attach of InvalidDsaPointer")
           ELSE /\ CanExcl("nested")
                /\ CStep(p, "del_release",
                         Store(htab, e, [e EXCEPT !.arm = "freed", !.set = NoTable]), lwlocks,
                         [q \in 1 .. NProcs |->
                             IF q = p THEN [frame[q] EXCEPT !.destroyed = TRUE]
                             ELSE IF pc[q] \in {"sis_release", "sis_nested"}
                             THEN [frame[q] EXCEPT !.stale = TRUE]
                             ELSE frame[q]])

\* spdb_release_lock(g_spat_db, entry)
DelRelease(p) ==
    /\ pc[p] = "del_release"
    /\ PtrOk(p)
    /\ CStep(p, "del_delete_key", htab, RelL(lwlocks, TopLock(ConcKey), p), frame)

\* dshash_delete_key(g_spat_db->g_htab, &key): takes the partition lock,
\* deletes the entry of the key if there is one, releases the lock
DelDeleteKey(p) ==
    /\ pc[p] = "del_delete_key"
    /\ PtrOk(p)
    /\ CanExcl(TopLock(ConcKey))
    /\ CStep(p, "del_unlock_db", dshash_delete_key(htab, ArgDss(ConcKey)), lwlocks,
             [q \in 1 .. NProcs |-> [frame[q] EXCEPT !.alive = @ \ {ConcKey}]])

\* SPDB_LOCK_RELEASE(g_spat_db); PG_RETURN_BOOL(found) after the detach
DelUnlockDb(p) ==
    /\ pc[p] = "del_unlock_db"
    /\ CStep(p, "detach_dsa", htab, RelL(lwlocks, "db", p),
             [frame EXCEPT ![p].res = RBool(frame[p].found)])

\* sismember: spdb_find(g_spat_db, key, false) and dshash_attach of set.hndl
SisTop(p) ==
    /\ pc[p] = "sis_top"
    /\ PtrOk(p)
    /\ IF ~Present(htab, ConcKey)
       THEN CStep(p, "detach_dsa", htab, lwlocks, [frame EXCEPT ![p].res = RBool(FALSE)])
       ELSE /\ CanShare(TopLock(ConcKey))
            /\ IF spdb_find(htab, ArgDss(ConcKey)).e.arm # "set"
               THEN Die("sismember: dshash_attach of the handle of a value that was torn down")
               ELSE CStep(p, "sis_release", htab, AcqS(lwlocks, TopLock(ConcKey), p),
                          [frame EXCEPT ![p].found = TRUE])

\* spdb_release_lock(g_spat_db, dbentry), before the nested dshash_find
SisRelease(p) ==
    /\ pc[p] = "sis_release"
    /\ PtrOk(p)
    /\ CStep(p, "sis_nested", htab, RelL(lwlocks, TopLock(ConcKey), p), frame)

\* dshash_find(htab, &elem_dss, false) and the release of what it found.  In
\* a table that was destroyed the read is of freed memory: it faults or
\* finds bytes that give any answer.
SisNested(p) ==
    /\ pc[p] = "sis_nested"
    /\ PtrOk(p)
    /\ IF frame[p].stale
       THEN \/ Die("sismember: dshash_find in a table that was destroyed")
            \/ \E b \in BOOLEAN :
                  CStep(p, "detach_dsa", htab, lwlocks, [frame EXCEPT ![p].res = RBool(b)])
       ELSE /\ CanShare("nested")
            /\ CStep(p, "detach_dsa", htab, lwlocks,
                     [frame EXCEPT ![p].res =
                         RBool(set_find(spdb_find(htab, ArgDss(ConcKey)).e.set.tab,
                                        ArgDss(OldMember)) # {})])

\* sadd: spdb_find_or_insert; a new entry gets a new nested table, the table
\* of an entry that exists is attached by its handle
CSaddTop(p) ==
    /\ pc[p] = "sadd_top"
    /\ PtrOk(p)
    /\ CanExcl(TopLock(ConcKey))
    /\ LET r == spdb_find_or_insert(htab, ArgDss(ConcKey), ZeroJunk)
       IN  IF r.found /\ r.e.arm # "set"
           THEN Die("sadd: dshash_attach of the handle of a value that was torn down")
           ELSE CStep(p, "sadd_nested",
                      IF r.found THEN htab
                      ELSE Store(r.tab, r.e, WithSet([r.e EXCEPT !.valtyp = "SPVAL_SET"], NoTable)),
                      AcqX(lwlocks, TopLock(ConcKey), p), [frame EXCEPT ![p].found = r.found])

\* dshash_find_or_insert(htab, &elem_dss, &setelementfound) and size++
CSaddNested(p) ==
    /\ pc[p] = "sadd_nested"
    /\ PtrOk(p)
    /\ CanExcl("nested")
    /\ CStep(p, "sadd_rel_nested", sadd(htab, cells, ConcKey, NewMember, ZeroJunk).tab,
             AcqX(lwlocks, "nested", p), frame)

\* dshash_release_lock(htab, elem)
CSaddRelNested(p) ==
    /\ pc[p] = "sadd_rel_nested"
    /\ PtrOk(p)
    /\ CStep(p, "sadd_rel_top", htab, RelL(lwlocks, "nested", p), frame)

\* spdb_release_lock(g_spat_db, dbentry)
CSaddRelTop(p) ==
    /\ pc[p] = "sadd_rel_top"
    /\ PtrOk(p)
    /\ CStep(p, "detach_dsa", htab, RelL(lwlocks, TopLock(ConcKey), p), frame)

\* sp_db_nitems: dshash_seq_init takes no lock; alive is the keys that are
\* in the table from here on
ScanInit(p) ==
    /\ pc[p] = "scan_init"
    /\ PtrOk(p)
    /\ CStep(p, "scan", htab, lwlocks,
             [frame EXCEPT ![p].alive = {k \in Keys : Present(htab, k)}])

\* a scan that returns the item at the head of a partition twice
ScanNextTwice(p) ==
    /\ pc[p] = "scan"
    /\ PtrOk(p)
    /\ LET i == frame[p].pos
           k == <<i + 1>>
       IN  IF i < Cardinality(Keys)
           THEN /\ CanShare(TopLock(k))
                /\ CStep(p, "scan", htab,
                         AcqS(IF i > 0 THEN RelL(lwlocks, TopLock(<<i>>), p) ELSE lwlocks,
                              TopLock(k), p),
                         [frame EXCEPT ![p].pos = i + 1,
                                       ![p].seen = IF Present(htab, k) THEN @ \o <<k, k>> ELSE @])
           ELSE CStep(p, "detach_dsa", htab, RelL(lwlocks, TopLock(<<i>>), p),
                      [frame EXCEPT ![p].exhausted = @ + 1,
                                    ![p].res = RInt(Len(frame[p].seen))])

\* dshash_seq_next: the lock of the next partition is taken shared, then
\* the lock of the partition before it is released, and the items of the
\* partition are returned one by one under its lock; after the last
\* partition it returns NULL, and dshash_seq_term releases the last lock.
ScanNext(p) ==
    /\ pc[p] = "scan"
    /\ PtrOk(p)
    /\ LET i == frame[p].pos
           k == <<i + 1>>
       IN  IF i < Cardinality(Keys)
           THEN /\ CanShare(TopLock(k))
                /\ CStep(p, "scan", htab,
                         AcqS(IF i > 0 THEN RelL(lwlocks, TopLock(<<i>>), p) ELSE lwlocks,
                              TopLock(k), p),
                         [frame EXCEPT ![p].pos = i + 1,
                                       ![p].seen = IF Present(htab, k) THEN @ \o <<k>> ELSE @])
           ELSE CStep(p, "detach_dsa", htab, RelL(lwlocks, TopLock(<<i>>), p),
                      [frame EXCEPT ![p].exhausted = @ + 1,
                                    ![p].res = RInt(Len(frame[p].seen))])

NextConc ==
    \/ \E p \in Procs : CCheckDsa(p)
    \/ \E p \in Procs : CAttachDsa(p)
    \/ \E p \in Procs : CCheckHtab(p)
    \/ \E p \in Procs : CAttachHtab(p)
    \/ \E p \in Procs : CFault(p)
    \/ \E p \in Procs : DelLockDb(p)
    \/ \E p \in Procs : DelFind(p)
    \/ \E p \in Procs : DelValue(p)
    \/ \E p \in Procs : DelRelease(p)
    \/ \E p \in Procs : DelDeleteKey(p)
    \/ \E p \in Procs : DelUnlockDb(p)
    \/ \E p \in Procs : SisTop(p)
    \/ \E p \in Procs : SisRelease(p)
    \/ \E p \in Procs : SisNested(p)
    \/ \E p \in Procs : CSaddTop(p)
    \/ \E p \in Procs : CSaddNested(p)
    \/ \E p \in Procs : CSaddRelNested(p)
    \/ \E p \in Procs : CSaddRelTop(p)
    \/ \E p \in Procs : ScanInit(p)
    \/ \E p \in Procs : ScanNext(p)
    \/ \E p \in Procs : SaddDetachDsa(p)
    \/ \E p \in Procs : SaddDetachHtab(p)

SpecConc == InitConc /\ [][NextConc]_vars

(* ------------------------------ properties ---------------------------- *)

\* A read command that returns leaves the table and the cells as they are, so
\* what it would return in a state is the result of its operator there.
Get(k) == spget(htab, cells, k)
TypeOf(k) == sptype(htab, cells, k).res.t
Written == {"string", "set", "list", "hash"}
\* a read command has inserted an item for a key that holds nothing
Probed(k) == hist[k] \in {"never", "deleted"} /\ Present(htab, k)

\* C1: after SPSET(K, V), with no write to K since, SPGET(K) returns a string
\* whose bytes are exactly V, whatever K held before.
C1_SetGetRoundTrip ==
    \A k \in Keys :
        strset[k].set =>
            /\ Get(k).fault = "none"
            /\ Get(k).res.kind = "spval"
            /\ Get(k).res.t = "SPVAL_STRING"
            /\ VARSIZE_ANY_EXHDR(Get(k).res.s) = Len(strset[k].v)
            /\ VARDATA_ANY(Get(k).res.s) = strset[k].v

\* a value holding a NUL byte was set over an entry that existed, and is got back
C1_Witness ==
    /\ ret.op = "spset" /\ ret.was = "present" /\ ret.a = <<0>>
    /\ strset[ret.key].set
    /\ VARDATA_ANY(Get(ret.key).res.s) = <<0>>

\* C3: for a key never written, SPTYPE returns "null" and SPGET returns no
\* value, after any commands that did not write the key.
C3_NeverWrittenIsNull ==
    \A k \in Keys :
        hist[k] = "never" => TypeOf(k) = "null" /\ Get(k).res = RNull

\* C10: SPTYPE names the kind written last to the key: "string", "set", "list"
\* or "hash", and "null" for a key that is absent.
C10_TypeOfNamesKind ==
    \A k \in Keys :
        /\ hist[k] \in Written => TypeOf(k) = hist[k]
        /\ ~Present(htab, k) => TypeOf(k) = "null"

\* the entry of key k in a table
EntryOf(tab, k) == spdb_find(tab, ArgDss(k)).e
\* this step is command op on key k returning, or ending the run
Did(op, k) ==
    /\ ret'.op = op
    /\ ret'.key = k
    /\ nwrites' = nwrites + 1 \/ fault' # "none"

\* C4: LPOP returns the LPUSHed elements of a key newest first; once they are
\* all popped it returns no value and LLEN is 0.
C4_PopsReversePushes ==
    [][\A k \in Keys :
        Did("lpop", k) /\ lstack[k].ok =>
            /\ fault' = "none"
            /\ ret'.res = IF lstack[k].s = <<>> THEN RNull
                          ELSE RText(MkText(Head(lstack[k].s)))
            /\ lstack'[k].s = <<>> => llen(htab', cells', k, ZeroJunk).res = RInt(0)]_vars

\* C5: SADD of a member the set of the key already holds changes nothing:
\* the same members, the same cardinality.
C5_DuplicateSaddNoop ==
    [][\A k \in Keys :
        Did("sadd", k) /\ EntryOf(htab, k).arm = "set" /\ Was(htab, k, ret'.a) = "member" =>
            /\ fault' = "none"
            /\ EntryOf(htab', k).set = EntryOf(htab, k).set
            /\ htab' = htab
            /\ cells' = cells]_vars

\* the second SADD of one member has returned
C5_Witness ==
    /\ ret.op = "sadd" /\ ret.was = "member" /\ nwrites = 2 /\ fault = "none"
    /\ EntryOf(htab, ret.key).set.size = 1
    /\ sismember(htab, cells, ret.key, ret.a).res = RBool(TRUE)

\* C6: HSET of a field the hash already holds replaces its value: HGET of the
\* field returns the new value, the other fields keep theirs, and the number
\* of fields stays.
C6_HsetOverwrites ==
    [][\A k \in Keys :
        Did("hset", k) /\ EntryOf(htab, k).arm = "hash" /\ Was(htab, k, ret'.a) = "member" =>
            /\ fault' = "none"
            /\ hget(htab', cells', k, ret'.a).res = RText(MkText(ret'.b))
            /\ \A f \in Fields \ {ret'.a} :
                  hget(htab', cells', k, f).res = hget(htab, cells, k, f).res
            /\ EntryOf(htab', k).hash.size = EntryOf(htab, k).hash.size
            /\ Cardinality(EntryOf(htab', k).hash.tab) = Cardinality(EntryOf(htab, k).hash.tab)]_vars

\* a field of a hash of two fields was set again
C6_Witness ==
    /\ ret.op = "hset" /\ ret.was = "member" /\ nwrites = 3 /\ fault = "none"
    /\ EntryOf(htab, ret.key).hash.size = 2
    /\ hget(htab, cells, ret.key, ret.a).res = RText(MkText(ret.b))

\* C7: after DEL of a key that was written, the key is as never written:
\* SPTYPE is "null", and an SADD of m makes a set of cardinality 1 whose only
\* member is m.
C7_DeleteReclaims ==
    \A k \in Keys :
        hist[k] = "deleted" =>
            /\ TypeOf(k) = "null"
            /\ \A m \in Members :
                  LET o == sadd(htab, cells, k, m, ZeroJunk)
                  IN  /\ o.fault = "none"
                      /\ scard(o.tab, o.cells, k).res = RInt(1)
                      /\ \A x \in Members :
                            sismember(o.tab, o.cells, k, x).res = RBool(x = m)

\* C8: DEL returns true exactly for a key that was written and not deleted
\* since; DEL of any other key returns false and leaves the table as it is.
C8_DelReturnsPresence ==
    [][\A k \in Keys :
        Did("del", k) =>
            /\ fault' = "none"
            /\ hist[k] \in Written => ret'.res = RBool(TRUE)
            /\ hist[k] \in {"never", "deleted"} => ret'.res = RBool(FALSE) /\ htab' = htab]_vars

\* C9: after write and delete commands, SP_DB_NITEMS is the number of keys
\* that hold a value.
C9_NitemsCountsKeys ==
    (\A k \in Keys : ~Probed(k)) =>
        sp_db_nitems(htab, cells).res = RInt(Cardinality({k \in Keys : hist[k] \in Written}))

\* C2: when NProcs backends run SADD on one key concurrently, each with its
\* own member, then once all of them are through, the cardinality of the key
\* has grown by NProcs and every one of the members is in the set.
C2_ConcurrentSadd ==
    (\A p \in Procs : pc[p] \in {"done", "crashed"}) =>
        /\ fault = "none"
        /\ \A p \in Procs : sismember(htab, cells, SaddKey, SaddMember(p)).res = RBool(TRUE)
        /\ scard(htab, cells, SaddKey).res =
              RInt(NProcs + (IF sismember(htab, cells, SaddKey, BaseMember).res = RBool(TRUE)
                             THEN 1 ELSE 0))

ReadOps == {"spget", "sptype", "getexpireat", "sismember", "scard", "llen", "hget"}

\* C12: a read command (SPGET, SPTYPE, GETEXPIREAT, SISMEMBER, SCARD, LLEN,
\* HGET) on a key with no entry returns without error and creates no entry:
\* the table, SP_DB_NITEMS and SPTYPE of the key are as before the read.
C12_ReadsCreateNoEntry ==
    [][\A k \in Keys :
        ~Present(htab, k) =>
            /\ \A o \in {spget(htab, cells, k), sptype(htab, cells, k), scard(htab, cells, k)}
                      \cup {getexpireat(htab, cells, k, g) : g \in ExpireJunk} :
                  o.fault = "none" /\ o.tab = htab
            /\ \A m \in Members :
                  /\ sismember(htab, cells, k, m).fault = "none"
                  /\ sismember(htab, cells, k, m).tab = htab
                  /\ hget(htab, cells, k, m).fault = "none"
                  /\ hget(htab, cells, k, m).tab = htab
            /\ \A op \in ReadOps :
                  Did(op, k) =>
                      /\ fault' = "none"
                      /\ htab' = htab
                      /\ sp_db_nitems(htab', cells').res = sp_db_nitems(htab, cells).res
                      /\ sptype(htab', cells', k).res = RName("null")]_vars

\* C13: for a key never written, SCARD returns 0 and LLEN returns 0.
C13_NeverWrittenCountsZero ==
    \A k \in Keys :
        hist[k] = "never" =>
            /\ scard(htab, cells, k).res = RInt(0)
            /\ \A j \in Junk : llen(htab, cells, k, j).res = RInt(0)

\* C14: right after SPSET with a ttl GETEXPIREAT returns the time of the set
\* plus the ttl; for a key written without a ttl only, it returns no value.
C14_ExpiryAfterSet ==
    [][\A k \in Keys :
        Did("spset", k) =>
            /\ fault' = "none"
            /\ ret'.b # NoArg =>
                  \A g \in ExpireJunk :
                     getexpireat(htab', cells', k, g).res = Res("timestamp", "ttl", <<>>, 0)
            /\ ret'.b = NoArg /\ hist[k] = "never" /\ ~Present(htab, k) =>
                  \A g \in ExpireJunk : getexpireat(htab', cells', k, g).res = RNull]_vars

\* C15: SPSET without a ttl discards the ttl of the key: after SPSET with a
\* ttl and then SPSET without one, GETEXPIREAT returns no value.
C15_SetDiscardsTtl ==
    [][\A k \in Keys :
        Did("spset", k) /\ ret'.b = NoArg /\ Present(htab, k) /\ EntryOf(htab, k).expireat = "ttl" =>
            /\ fault' = "none"
            /\ \A g \in ExpireJunk : getexpireat(htab', cells', k, g).res = RNull]_vars

\* C16: once the ttl given to the SPSET of a key has elapsed, with no write
\* since, SPGET of the key returns NULL.
C16_ExpiredReadsNull ==
    ret.op = "spset" /\ ret.b # NoArg /\ fault = "none"
        /\ Present(htab, ret.key) /\ EntryOf(htab, ret.key).expireat = "past" =>
            Get(ret.key).res = RNull

\* C17: SADD, SISMEMBER and SREM of a key that holds a string, a list or a
\* hash, and HSET of a key that holds a string, a set or a list, report an
\* error to the caller: the backend lives on and the entry is as it was.
C17_WrongKindIsAnError ==
    [][\A k \in Keys :
        /\ Present(htab, k)
        /\ \/ hist[k] \in Written \ {"set"} /\ (Did("sadd", k) \/ Did("sismember", k) \/ Did("srem", k))
           \/ hist[k] \in Written \ {"hash"} /\ Did("hset", k)
        => /\ fault' = "none"
           /\ ret'.res.kind = "error"
           /\ Present(htab', k)
           /\ EntryOf(htab', k) = EntryOf(htab, k)]_vars

\* C18: LPUSH, RPUSH and LLEN of a key that holds a string, a set or a hash
\* return an error, and the kind and the value of the entry stay as they were.
C18_ListOpsOnOtherKinds ==
    [][\A k \in Keys :
        Present(htab, k) /\ hist[k] \in Written \ {"list"} =>
            /\ llen(htab, cells, k, ZeroJunk).res.kind = "error"
            /\ llen(htab, cells, k, ZeroJunk).tab = htab
            /\ Did("lpush", k) \/ Did("rpush", k) =>
                  /\ fault' = "none"
                  /\ ret'.res.kind = "error"
                  /\ Present(htab', k)
                  /\ EntryOf(htab', k) = EntryOf(htab, k)]_vars

ContentsOf(reg, d) == GetNamedDSMSegment(reg, d)[d].tab

\* C20: a command run while spat.db names one database leaves every other
\* named database as it was: the same items under the same keys, the same
\* sp_db_nitems.
C20_NamedDbsIsolated ==
    [][\A d \in Dbs :
        d # g_guc_spat_db_name /\ ~(fault' = "none" /\ g_guc_spat_db_name' # g_guc_spat_db_name) =>
            /\ ContentsOf(dsm_registry', d) = ContentsOf(dsm_registry, d)
            /\ \A k \in Keys : Present(ContentsOf(dsm_registry', d), k) = Present(ContentsOf(dsm_registry, d), k)
            /\ Cardinality(ContentsOf(dsm_registry', d)) = Cardinality(ContentsOf(dsm_registry, d))]_vars

\* C21: spat_detach_shmem destroys nothing of the store: the value of the
\* last SPSET of a key is what SPGET finds, also when every backend has
\* detached since and whoever reads had to attach anew.
C21_DetachKeepsContents ==
    \A k \in Keys :
        fault = "none" /\ strset[k].set =>
            /\ dsm_registry[g_guc_spat_db_name].refcnt > 0
            /\ Present(htab, k)
            /\ Get(k).fault = "none"
            /\ Get(k).res.kind = "spval"
            /\ VARDATA_ANY(Get(k).res.s) = strset[k].v

\* a backend that wrote has detached, none is attached, and another backend
\* has attached since and is about to read
C21_Witness ==
    /\ fault = "none"
    /\ \E k \in Keys : strset[k].set /\ VARDATA_ANY(Get(k).res.s) = strset[k].v
    /\ dsm_registry[g_guc_spat_db_name].refcnt = 1 + 1
    /\ \E p \in Procs : pc[p] = "body" /\ natt[p] = 1 /\ g_dsa = p /\ g_htab = p
    /\ \A p \in Procs : pc[p] \in {"idle", "body"}

\* C22: a command leaves its backend detached when it returns, whichever way
\* it returns: the backend holds no attachment and spdb_is_attached is false.
C22_ReturnsDetached ==
    [][\A p \in Procs :
        pc[p] # "idle" /\ pc'[p] = "idle" /\ fault' = "none" =>
            natt'[p] = 0 /\ ~spdb_is_attached']_vars

\* C23: spat_attach_shmem in a backend that holds an attachment to the area
\* attaches nothing.
C23_AttachIsIdempotent ==
    [][\A p \in Procs :
        natt[p] > 0 => ~(pc[p] = "attach_dsa" /\ pc'[p] # "attach_dsa")]_vars

\* C24: spat_init_shmem runs once for the name however the first commands of
\* the backends interleave, and the handles and created_at it wrote stay.
C24_InitOnce ==
    [][/\ ninit' <= 1
       /\ \A n \in DOMAIN dsm_registry :
            /\ n \in DOMAIN dsm_registry'
            /\ dsm_registry'[n].dsa_handle = dsm_registry[n].dsa_handle
            /\ dsm_registry'[n].htab_handle = dsm_registry[n].htab_handle
            /\ dsm_registry'[n].created_at = dsm_registry[n].created_at]_vars

\* every backend has made its first request before any got as far as its
\* command, and the segment was initialised once
C24_Witness ==
    /\ ninit = 1
    /\ g_guc_spat_db_name \in DOMAIN dsm_registry
    /\ \A p \in Procs : pc[p] \in {"check_dsa", "attach_dsa", "check_htab", "attach_htab"}

\* C25: from the return of its spat_attach_shmem to its own spat_detach_shmem
\* a backend finds in g_dsa and g_htab the pointers it resolved itself.
C25_PointersArePerBackend ==
    \A p \in Procs : pc[p] = "body" => g_dsa = p /\ g_htab = p

\* C26: in every command each lock a find or find_or_insert returned with is
\* released once, and the command returns holding no partition lock and no
\* database lock.
C26_LocksReleasedOnce ==
    \A op \in LockOps, k \in Keys, a \in Members :
        HeldAfter(LockTrace(op, htab, cells, k, a), {}) = {}

\* a state where hget finds the key, a hash, and the field in it
C26_Witness ==
    \E k \in Keys, f \in Fields :
        /\ hget(htab, cells, k, f).res.kind = "text"
        /\ Len(locks_hget(htab, cells, k, f)) = 4

\* C27: every entry of the table carries one of the tags string, set, list,
\* hash, and the union arm of its tag is the one that was written.
C27_EntriesAreInitialised ==
    \A e \in htab :
        /\ e.valtyp \in {"SPVAL_STRING", "SPVAL_SET", "SPVAL_LIST", "SPVAL_HASH"}
        /\ e.arm = CASE e.valtyp = "SPVAL_STRING" -> "string"
                     [] e.valtyp = "SPVAL_SET"    -> "set"
                     [] e.valtyp = "SPVAL_LIST"   -> "list"
                     [] e.valtyp = "SPVAL_HASH"   -> "hash"

RECURSIVE ChainFrom(_, _, _)
ChainFrom(c, p, n) ==
    IF p = InvalidDsaPointer \/ n = 0 THEN <<>>
    ELSE <<p>> \o ChainFrom(c, c[p].next, n - 1)

\* head, tail and size of a list agree with its chain of elements
ChainOk(l, c) ==
    LET ch == ChainFrom(c, l.head, MaxCells + 1)
    IN  /\ Len(ch) = l.size
        /\ l.size = 0 <=> (l.head = InvalidDsaPointer /\ l.tail = InvalidDsaPointer)
        /\ \A i \in 1 .. Len(ch) : c[ch[i]].used
        /\ \A i \in 1 .. Len(ch) - 1 : c[ch[i + 1]].prev = ch[i]
        /\ l.size > 0 => /\ ch[Len(ch)] = l.tail
                         /\ c[l.head].prev = InvalidDsaPointer
                         /\ c[l.tail].next = InvalidDsaPointer

\* C29: after every LPUSH, RPUSH and LPOP of a key that no other kind of
\* command has written since it was absent, the entry of the key holds
\* a list whose chain from head along next has size elements and ends at
\* tail, with prev mirroring next, and size 0 exactly for an empty chain
\* (the zero bytes of a fresh page read as the empty list).
C29_ListChainConsistent ==
    [][\A k \in Keys :
        /\ hist[k] \in {"never", "deleted", "list", "popped"}
        /\ Did("lpush", k) \/ Did("rpush", k) \/ Did("lpop", k)
        =>  /\ fault' = "none"
            /\ Present(htab', k)
            /\ \/ EntryOf(htab', k).arm = "list"
               \/ EntryOf(htab', k).arm = "uninit" /\ EntryOf(htab', k).junk.zero
            /\ ChainOk(EntryOf(htab', k).list, cells')]_vars

\* The arena allocations the value of entry e owns: the bytes of a string
\* (dsa_allocate in spset_generic); per list element its list_element and the
\* dss of its data (dss_new of PG_GETARG_DSS); the nested table of a set or a
\* hash, and per member or field its item and the strings the item points to
\* (dss_copy in dshash_find_or_insert; dss_new of the field and value of hset).
ValueAllocs(e, c) ==
    CASE e.arm = "string" -> {<<"string.str", 0>>}
      [] e.arm = "list" ->
            UNION {{<<"list_element", ChainFrom(c, e.list.head, MaxCells + 1)[i]>>, <<"data.str", ChainFrom(c, e.list.head, MaxCells + 1)[i]>>} :
                       i \in 1 .. Len(ChainFrom(c, e.list.head, MaxCells + 1))}
      [] e.arm = "set" ->
            {<<"table", 0>>} \cup UNION {{<<"item", m>>, <<"member.str", m>>} : m \in e.set.tab}
      [] e.arm = "hash" ->
            {<<"table", 0>>}
            \cup UNION {{<<"item", x.field>>, <<"field.str", x.field>>, <<"value.str", x.field>>} :
                            x \in e.hash.tab}
      [] OTHER -> {}

\* What del frees of them, by the tag of the entry: dsa_free of string.str;
\* dsa_free of every list_element from head; dshash_delete_current of every
\* item and dshash_destroy of the nested table.
DelFrees(e, c) ==
    CASE e.valtyp = "SPVAL_STRING" -> {<<"string.str", 0>>}
      [] e.valtyp = "SPVAL_LIST" ->
            {<<"list_element", ChainFrom(c, e.list.head, MaxCells + 1)[i]>> : i \in 1 .. Len(ChainFrom(c, e.list.head, MaxCells + 1))}
      [] e.valtyp = "SPVAL_SET" -> {<<"table", 0>>} \cup {<<"item", m>> : m \in e.set.tab}
      [] e.valtyp = "SPVAL_HASH" -> {<<"table", 0>>} \cup {<<"item", x.field>> : x \in e.hash.tab}
      [] OTHER -> {}

\* C30: DEL of a key that holds a value frees every arena allocation the
\* value owns and removes the entry.
C30_DelFreesValue ==
    [][\A k \in Keys :
        Did("del", k) /\ Present(htab, k) /\ hist[k] \in Written =>
            /\ fault' = "none"
            /\ ~Present(htab', k)
            /\ ValueAllocs(EntryOf(htab, k), cells) \subseteq DelFrees(EntryOf(htab, k), cells)]_vars

\* What spset_generic frees of the value of the entry it found before it
\* writes string.len and string.str: there is no dsa_free, dshash_destroy or
\* list walk between spdb_find_or_insert and the assignments.
spset_frees(e, c) == {}

\* What hset frees of the item x of a field it found before it assigns
\* sphsntry->value: nothing.
hset_frees(x) == {}

\* C31: when SPSET replaces the value of an entry, or HSET the value of a
\* field that exists, every arena allocation of the replaced value is freed:
\* none of them (the old string, the list elements, the nested table and its
\* items, the old value string of the field) stays live.
C31_ReplaceFreesOld ==
    [][\A k \in Keys :
        /\ Did("spset", k) /\ Present(htab, k) /\ hist[k] \in Written =>
              /\ fault' = "none"
              /\ ValueAllocs(EntryOf(htab, k), cells)
                     \subseteq spset_frees(EntryOf(htab, k), cells)
              /\ EntryOf(htab, k).arm = "list" =>
                     \A p \in CellPtrs : cells[p].used => ~cells'[p].used
        /\ Did("hset", k) /\ hist[k] = "hash" /\ ret'.was = "member" =>
              /\ fault' = "none"
              /\ \A x \in hash_find(EntryOf(htab, k).hash.tab, ArgDss(ret'.a)) :
                     <<"value.str", x.field>> \in hset_frees(x)]_vars

\* the table a command that ended in an error would have left had it returned
Succeeded(op, k, a, b) ==
    CASE op = "spset" ->
            spset_generic(htab, cells, k, MkText(a), IF b = NoArg THEN 0 ELSE 1, ZeroJunk).tab
      [] op = "lpush" ->
            IF HasFree(cells) THEN lpush(htab, cells, k, a, ZeroJunk).tab ELSE htab
      [] op = "sadd" -> sadd(htab, cells, k, a, ZeroJunk).tab

\* C32: a command that fails at an allocation leaves the entry of its key
\* either as it was before the command or as the command leaves it when it
\* succeeds: no new entry without a value, no tag without its value, no size
\* without its structure.
C32_FailureIsAllOrNothing ==
    [][\A k \in Keys :
        ret'.res = ROom /\ ret'.key = k /\ nwrites' = nwrites + 1 =>
            \/ dshash_find(htab', ArgDss(k)) = dshash_find(htab, ArgDss(k))
            \/ dshash_find(htab', ArgDss(k))
                   = dshash_find(Succeeded(ret'.op, k, ret'.a, ret'.b), ArgDss(k))]_vars

\* C33: a command whose arena allocation fails while it holds a bucket lock
\* has released every lock it took when the error leaves it: no top-level
\* and no nested bucket lock is still held.
C33_FailureReleasesLocks ==
    [][\A k \in Keys :
        ret'.res = ROom /\ ret'.key = k /\ nwrites' = nwrites + 1 =>
            HeldAfter(locks_oom(ret'.op, htab, k), {}) = {}]_vars

\* C34: in every command, on every path, no top-level partition lock and no
\* LWLock of the database is requested while a nested partition lock is
\* held, and a nested partition lock is requested only after the top-level
\* partition lock of its key was taken.
C34_LockOrder ==
    \A op \in LockOps, k \in Keys, a \in Members :
        LockOrderOk(CommandLocks(op, htab, cells, k, a), {}, FALSE)

\* a set holds a member: sadd, sismember, srem and del of it take nested locks
C34_Witness ==
    /\ ret.op = "sadd"
    /\ fault = "none"
    /\ \E k \in Keys, m \in Members :
          /\ Present(htab, k)
          /\ EntryOf(htab, k).arm = "set"
          /\ Len(locks_sismember(htab, cells, k, m)) = 4
          /\ Len(locks_del(htab, cells, k)) = 8

\* how many times the scan of a backend returned key k
TimesSeen(s, k) == Cardinality({i \in DOMAIN s : s[i] = k})

FindsEntry(q) ==
    /\ pc[q] \in {"sis_top", "sadd_top"}
    /\ Present(htab, ConcKey)
    /\ \/ pc'[q] \in {"sis_release", "sadd_nested"}
       \/ fault' \in {"sismember: dshash_attach of the handle of a value that was torn down",
                      "sadd: dshash_attach of the handle of a value that was torn down"}

\* C36: a command on a key that runs beside a del of it finds the entry as it
\* was before the del or finds none: it never finds an entry whose value
\* del has torn down (nested table destroyed) and that is still in g_htab.
C36_DelIsAtomic ==
    [][\A q \in Procs : FindsEntry(q) => EntryOf(htab, ConcKey).arm # "freed"]_vars

\* C37: a sismember that runs beside a del of its key never does its nested
\* dshash_find in a table the del has destroyed: it returns what the set held
\* before the del, or false.
C37_SismemberAfterDestroy ==
    [][\A q \in Procs :
        pc[q] = "sis_nested" /\ pc'[q] # pc[q] /\ PtrOk(q) /\ fault' # "a command went through g_dsa or g_htab of another backend"
            => ~frame[q].stale]_vars

\* C38: no run reaches a state from which a command that was started cannot
\* return: whenever some backend has not returned, some backend can take a
\* step (no backend has died in its command, and the backends do not all
\* wait for locks held by one another).
C38_CommandsCanReturn ==
    (\E p \in Procs : pc[p] # "done") => ENABLED NextConc

\* C39: when every backend runs del of the same key, which holds a value,
\* and all of them are through, exactly one del has returned true, the others
\* false, and the value was torn down once (one dshash_destroy of the nested
\* table, no second free).
C39_OneDelWins ==
    (/\ \A p \in Procs : frame[p].op = "del"
     /\ \A p \in Procs : pc[p] \in {"done", "crashed"})
        => /\ Cardinality({p \in Procs : frame[p].res = RBool(TRUE)}) = 1
           /\ \A p \in Procs : frame[p].res \in {RBool(TRUE), RBool(FALSE)}
           /\ Cardinality({p \in Procs : frame[p].destroyed}) = 1

\* The arena copies a handler makes of its arguments: one dss_new, that is one
\* dsa_allocate, per PG_GETARG_DSS.
ArgCopies(op) ==
    CASE op \in {"sadd", "sismember", "srem"} -> {"key", "member"}
      [] op \in {"lpush", "rpush"}            -> {"key", "elem"}
      [] op = "hset"                          -> {"key", "field", "value"}
      [] op = "hget"                          -> {"key", "field"}
      [] OTHER                                -> {"key"}

\* The copies an entry points to when the handler returns: the data of a new
\* list element; the value of a hash field, and the field of a new one.  The
\* tables copy their keys themselves (dss_copy), so no key or member passes.
ArgsKept(op, was) ==
    CASE op \in {"lpush", "rpush"} -> {"elem"}
      [] op = "hset"               -> IF was = "member" THEN {"value"} ELSE {"field", "value"}
      [] OTHER                     -> {}

\* The copies a handler frees before it returns: no handler calls dss_free,
\* and none calls dsa_free on an argument.
ArgsFreed(op) == {}

\* C40: every command frees the arena copies of its arguments that no entry
\* took over; a command that only reads (spget, sptype, getexpireat,
\* sismember, scard, hget) leaves no allocation behind.
C40_ArgumentCopiesFreed ==
    [][/\ \A op \in {"spget", "sptype", "getexpireat", "sismember", "scard", "hget"} :
              ArgCopies(op) \subseteq ArgsFreed(op)
       /\ \A k \in Keys :
              Did(ret'.op, k) /\ fault' = "none" =>
                  ArgCopies(ret'.op) \ ArgsKept(ret'.op, ret'.was) \subseteq ArgsFreed(ret'.op)]_vars

====
